---- MODULE Spec2Model ----
(***************************************************************************)
(* Ingredient resolution, weight estimation and recipe matching of the     *)
(* kitchen-inventory service.                                              *)
(*                                                                         *)
(* Python strings are modelled as sequences of one-character strings, so   *)
(* that split(), startswith(), endswith(), slicing and the substring test  *)
(* `in` are computed, not assumed.  None is the empty tuple and a present  *)
(* value v is the one-element tuple <<v>>.  Database tables are sets of    *)
(* rows; a row's id is the number of rows the table held before the        *)
(* insert plus one, which also records the insertion order.                *)
(***************************************************************************)
EXTENDS Integers, Sequences, FiniteSets, TLC

VARIABLES ingredient_references, ingredient_aliases, product_references, items, recipes,
          recipe_ingredients, ingredient_substitutions, last, in_flight

recipe_vars == <<recipes, recipe_ingredients, ingredient_substitutions>>

vars == <<ingredient_references, ingredient_aliases, product_references, items, recipe_vars, last,
          in_flight>>

None == <<>>
Some(v) == <<v>>

(* ------------------------------ strings -------------------------------- *)

UpperChars == <<"A", "B", "C", "D", "E", "F", "G", "H", "I", "J", "K", "L", "M",
                "N", "O", "P", "Q", "R", "S", "T", "U", "V", "W", "X", "Y", "Z">>
LowerChars == <<"a", "b", "c", "d", "e", "f", "g", "h", "i", "j", "k", "l", "m",
                "n", "o", "p", "q", "r", "s", "t", "u", "v", "w", "x", "y", "z">>
Digits == {"0", "1", "2", "3", "4", "5", "6", "7", "8", "9"}

lower_char(c) ==
  IF \E i \in 1..26 : UpperChars[i] = c
  THEN LowerChars[CHOOSE i \in 1..26 : UpperChars[i] = c]
  ELSE c

lower(s) == [i \in 1..Len(s) |-> lower_char(s[i])]

startswith(s, p) == Len(s) >= Len(p) /\ SubSeq(s, 1, Len(p)) = p
endswith(s, p) == Len(s) >= Len(p) /\ SubSeq(s, Len(s) - Len(p) + 1, Len(s)) = p

\* needle in hay
contains(hay, needle) ==
  \E i \in 1..(Len(hay) - Len(needle) + 1) : SubSeq(hay, i, i + Len(needle) - 1) = needle

RECURSIVE lstrip(_)
lstrip(s) == IF s # <<>> /\ Head(s) = " " THEN lstrip(Tail(s)) ELSE s

RECURSIVE rstrip(_)
rstrip(s) == IF s # <<>> /\ s[Len(s)] = " " THEN rstrip(SubSeq(s, 1, Len(s) - 1)) ELSE s

strip(s) == rstrip(lstrip(s))

\* str.split(): split on runs of whitespace, no empty words
RECURSIVE split_from(_, _, _)
split_from(s, i, cur) ==
  IF i > Len(s) THEN (IF cur = <<>> THEN <<>> ELSE <<cur>>)
  ELSE IF s[i] = " "
       THEN (IF cur = <<>> THEN <<>> ELSE <<cur>>) \o split_from(s, i + 1, <<>>)
       ELSE split_from(s, i + 1, Append(cur, s[i]))

split(s) == split_from(s, 1, <<>>)

\* " ".join(words)
RECURSIVE join(_)
join(words) ==
  IF words = <<>> THEN <<>>
  ELSE IF Len(words) = 1 THEN words[1]
  ELSE words[1] \o <<" ">> \o join(Tail(words))

\* s with every occurrence of the character c removed (str.replace(c, ''))
remove_char(s, c) == SelectSeq(s, LAMBDA ch : ch # c)

isdigit(s) == s # <<>> /\ \A i \in 1..Len(s) : s[i] \in Digits

s_green_onion == <<"g", "r", "e", "e", "n", " ", "o", "n", "i", "o", "n">>
s_scallion == <<"s", "c", "a", "l", "l", "i", "o", "n">>
s_scallions == <<"s", "c", "a", "l", "l", "i", "o", "n", "s">>
s_spring_onion == <<"s", "p", "r", "i", "n", "g", " ", "o", "n", "i", "o", "n">>
s_spring_onions == <<"s", "p", "r", "i", "n", "g", " ", "o", "n", "i", "o", "n", "s">>
s_green_onions == <<"g", "r", "e", "e", "n", " ", "o", "n", "i", "o", "n", "s">>
s_egg == <<"e", "g", "g">>
s_eggs == <<"e", "g", "g", "s">>
s_large_egg == <<"l", "a", "r", "g", "e", " ", "e", "g", "g">>
s_large_eggs == <<"l", "a", "r", "g", "e", " ", "e", "g", "g", "s">>
s_eggplant == <<"e", "g", "g", "p", "l", "a", "n", "t">>
s_eggplants == <<"e", "g", "g", "p", "l", "a", "n", "t", "s">>
s_bagel == <<"b", "a", "g", "e", "l">>
s_bagels == <<"b", "a", "g", "e", "l", "s">>
s_Fresh_Bagels == <<"F", "r", "e", "s", "h", " ", "B", "a", "g", "e", "l", "s">>
p_juice_and_zest_of == <<"j", "u", "i", "c", "e", " ", "a", "n", "d", " ", "z", "e", "s", "t", " ", "o", "f", " ">>
p_juice_of == <<"j", "u", "i", "c", "e", " ", "o", "f", " ">>
p_zest_of == <<"z", "e", "s", "t", " ", "o", "f", " ">>
p_optional_variation == <<"o", "p", "t", "i", "o", "n", "a", "l", " ", "v", "a", "r", "i", "a", "t", "i", "o", "n", ":", " ">>
p_optional == <<"o", "p", "t", "i", "o", "n", "a", "l", ":", " ">>
s_mango == <<"m", "a", "n", "g", "o">>

(* ------------------------------ tables --------------------------------- *)

\* The rows of the seed table over the model's vocabulary, in the table's order.
INGREDIENT_ALIAS_SEEDS ==
  << [canonical |-> s_green_onion,
      aliases |-> <<s_scallion, s_scallions, s_spring_onion, s_spring_onions, s_green_onions>>],
     [canonical |-> s_egg,
      aliases |-> <<s_eggs, s_large_egg, s_large_eggs>>] >>

\* The entries of the manual weight table over the model's vocabulary (grams per unit).
MANUAL_FRESH_WEIGHTS ==
  { [key |-> s_green_onion, grams |-> 15],
    [key |-> s_scallion, grams |-> 15],
    [key |-> s_eggplant, grams |-> 450],
    [key |-> s_egg, grams |-> 50],
    [key |-> s_mango, grams |-> 200] }

in_manual_weights(name) == \E e \in MANUAL_FRESH_WEIGHTS : e.key = name

(* --------------------------- text normalizer --------------------------- *)

phrase_prefixes ==
  <<p_juice_and_zest_of, p_juice_of, p_zest_of, p_optional_variation, p_optional>>

remove_words ==
  {
    <<"c", "u", "p">>, <<"c", "u", "p", "s">>,
    <<"t", "a", "b", "l", "e", "s", "p", "o", "o", "n">>,
    <<"t", "a", "b", "l", "e", "s", "p", "o", "o", "n", "s">>, <<"t", "b", "s", "p">>,
    <<"t", "e", "a", "s", "p", "o", "o", "n">>, <<"t", "e", "a", "s", "p", "o", "o", "n", "s">>,
    <<"t", "s", "p">>, <<"o", "u", "n", "c", "e">>, <<"o", "u", "n", "c", "e", "s">>, <<"o", "z">>,
    <<"p", "o", "u", "n", "d">>, <<"p", "o", "u", "n", "d", "s">>, <<"l", "b">>, <<"l", "b", "s">>,
    <<"g", "r", "a", "m">>, <<"g", "r", "a", "m", "s">>, <<"g">>,
    <<"k", "i", "l", "o", "g", "r", "a", "m">>, <<"k", "i", "l", "o", "g", "r", "a", "m", "s">>,
    <<"k", "g">>, <<"l", "i", "t", "e", "r">>, <<"l", "i", "t", "e", "r", "s">>, <<"l">>,
    <<"m", "i", "l", "l", "i", "l", "i", "t", "e", "r">>,
    <<"m", "i", "l", "l", "i", "l", "i", "t", "e", "r", "s">>, <<"m", "l">>,
    <<"p", "i", "n", "c", "h">>, <<"d", "a", "s", "h">>, <<"h", "a", "n", "d", "f", "u", "l">>,
    <<"s", "l", "i", "c", "e">>, <<"s", "l", "i", "c", "e", "s">>, <<"p", "i", "e", "c", "e">>,
    <<"p", "i", "e", "c", "e", "s">>, <<"p", "c", "s">>, <<"c", "h", "o", "p", "p", "e", "d">>,
    <<"d", "i", "c", "e", "d">>, <<"m", "i", "n", "c", "e", "d">>,
    <<"s", "l", "i", "c", "e", "d">>, <<"f", "r", "e", "s", "h">>, <<"d", "r", "i", "e", "d">>,
    <<"g", "r", "o", "u", "n", "d">>, <<"c", "r", "u", "s", "h", "e", "d">>,
    <<"g", "r", "a", "t", "e", "d">>, <<"s", "h", "r", "e", "d", "d", "e", "d">>,
    <<"m", "e", "l", "t", "e", "d">>, <<"s", "o", "f", "t", "e", "n", "e", "d">>,
    <<"b", "e", "a", "t", "e", "n">>, <<"w", "h", "i", "s", "k", "e", "d">>,
    <<"t", "o", "a", "s", "t", "e", "d">>, <<"r", "o", "a", "s", "t", "e", "d">>,
    <<"l", "e", "a", "v", "e", "s">>, <<"l", "e", "a", "f">>, <<"s", "t", "a", "l", "k", "s">>,
    <<"s", "t", "a", "l", "k">>, <<"s", "p", "r", "i", "g">>, <<"s", "p", "r", "i", "g", "s">>,
    <<"f", "l", "o", "r", "e", "t", "s">>, <<"f", "l", "o", "r", "e", "t">>,
    <<"l", "a", "r", "g", "e">>, <<"m", "e", "d", "i", "u", "m">>, <<"s", "m", "a", "l", "l">>,
    <<"w", "h", "o", "l", "e">>, <<"h", "a", "l", "f">>, <<"q", "u", "a", "r", "t", "e", "r">>,
    <<"m", "i", "n", "i">>, <<"e", "x", "t", "r", "a">>, <<"j", "u", "m", "b", "o">>, <<"t", "o">>,
    <<"p", "u", "r", "e">>, <<"o", "r", "g", "a", "n", "i", "c">>,
    <<"n", "a", "t", "u", "r", "a", "l">>, <<"r", "a", "w">>,
    <<"u", "n", "b", "l", "e", "a", "c", "h", "e", "d">>, <<"f", "r", "e", "e">>,
    <<"r", "a", "n", "g", "e">>, <<"c", "a", "g", "e">>, <<"g", "r", "a", "d", "e">>,
    <<"q", "u", "a", "l", "i", "t", "y">>, <<"p", "r", "e", "m", "i", "u", "m">>,
    <<"f", "a", "n", "c", "y">>, <<"s", "e", "l", "e", "c", "t">>,
    <<"c", "h", "o", "i", "c", "e">>, <<"a", "l", "l", "-", "p", "u", "r", "p", "o", "s", "e">>,
    <<"p", "u", "r", "p", "o", "s", "e">>, <<"a", "l", "l">>, <<"l", "i", "g", "h", "t">>,
    <<"d", "a", "r", "k">>, <<"u", "n", "s", "a", "l", "t", "e", "d">>,
    <<"s", "a", "l", "t", "e", "d">>, <<"s", "w", "e", "e", "t", "e", "n", "e", "d">>,
    <<"u", "n", "s", "w", "e", "e", "t", "e", "n", "e", "d">>, <<"p", "l", "a", "i", "n">>,
    <<"r", "e", "g", "u", "l", "a", "r">>, <<"l", "o", "w">>, <<"f", "a", "t">>,
    <<"s", "o", "d", "i", "u", "m">>, <<"r", "e", "d", "u", "c", "e", "d">>,
    <<"o", "p", "t", "i", "o", "n", "a", "l">>, <<"v", "a", "r", "i", "a", "t", "i", "o", "n">>
  }

strip_prefix(text) ==
  IF \E i \in 1..Len(phrase_prefixes) : startswith(text, phrase_prefixes[i])
  THEN LET i == CHOOSE j \in 1..Len(phrase_prefixes) :
                  /\ startswith(text, phrase_prefixes[j])
                  /\ \A k \in 1..(j - 1) : ~startswith(text, phrase_prefixes[k])
       IN SubSeq(text, Len(phrase_prefixes[i]) + 1, Len(text))
  ELSE text

keep_word(word) ==
  /\ ~isdigit(remove_char(remove_char(word, "."), "/"))
  /\ word \notin remove_words
  /\ ~(\E i \in 1..Len(word) : word[i] \in {"(", ")"})

normalize_ingredient_text(ingredient_text) ==
  LET text == strip_prefix(strip(lower(ingredient_text)))
      filtered == SelectSeq(split(text), keep_word)
  IN strip(join(filtered))

(* -------------------------- identity store ----------------------------- *)

\* scalar_one_or_none() raises MultipleResultsFound on more than one row
Multiple(rows) == Cardinality(rows) > 1
One(rows) == CHOOSE r \in rows : TRUE

get_ingredient_by_id(refs, id) == {r \in refs : r.id = id}
get_ingredient_by_name(refs, name) == {r \in refs : r.name = name}
get_ingredient_by_normalized_name(refs, nn) == {r \in refs : r.normalized_name = nn}
get_alias_by_text(als, text) == {a \in als : a.alias = text}

\* The uuid4 primary key of a new identity.  Keys are only ever compared for equality
\* and the unique index on name admits one row per name, so the key drawn for the row
\* of a name is written as a token of that name.
new_id(name) == [uuid |-> name]

\* INSERT of an identity; the unique index on name rejects a second row of that name
create_ingredient_reference(refs, name, normalized_name) ==
  IF \E r \in refs : r.name = name
  THEN [raised |-> TRUE, refs |-> refs, id |-> None]
  ELSE LET id == new_id(name)
       IN [raised |-> FALSE,
           refs |-> refs \cup {[id |-> id, name |-> name,
                                normalized_name |-> IF normalized_name # <<>>
                                                    THEN normalized_name ELSE lower(name),
                                avg_weight_grams |-> None, weight_source |-> None]},
           id |-> id]

\* INSERT of an alias row; the alias column carries no unique constraint.  The serial
\* id is never read: a row carries instead its rank nth among the stored rows with the
\* same alias and ingredient_id, which keeps equal rows apart.
create_ingredient_alias(als, alias, ingredient_id) ==
  als \cup {[alias |-> alias, ingredient_id |-> ingredient_id,
             nth |-> Cardinality({a \in als : a.alias = alias /\ a.ingredient_id = ingredient_id}) + 1]}

(* ------------------------------ resolver ------------------------------- *)

find_canonical_in_seeds(name) ==
  IF \E i \in 1..Len(INGREDIENT_ALIAS_SEEDS) :
       \E j \in 1..Len(INGREDIENT_ALIAS_SEEDS[i].aliases) : INGREDIENT_ALIAS_SEEDS[i].aliases[j] = name
  THEN LET i == CHOOSE k \in 1..Len(INGREDIENT_ALIAS_SEEDS) :
                  /\ \E j \in 1..Len(INGREDIENT_ALIAS_SEEDS[k].aliases) :
                        INGREDIENT_ALIAS_SEEDS[k].aliases[j] = name
                  /\ \A m \in 1..(k - 1) :
                        \A j \in 1..Len(INGREDIENT_ALIAS_SEEDS[m].aliases) :
                          INGREDIENT_ALIAS_SEEDS[m].aliases[j] # name
       IN Some(INGREDIENT_ALIAS_SEEDS[i].canonical)
  ELSE None

s_ies == <<"i", "e", "s">>
s_oes == <<"o", "e", "s">>
s_ss == <<"s", "s">>
s_s == <<"s">>

drop_last(s, n) == SubSeq(s, 1, Len(s) - n)

\* the candidates of one word with the three rules as alternatives: the first that
\* applies gives the only candidate
singular_forms_first_rule_only(word) ==
  IF endswith(word, s_ies) THEN <<drop_last(word, 3) \o <<"y">>>>
  ELSE IF endswith(word, s_oes) THEN <<drop_last(word, 2)>>
  ELSE IF endswith(word, s_s) /\ ~endswith(word, s_ss) THEN <<drop_last(word, 1)>>
  ELSE <<>>

\* the candidates of one word, in priority order
singular_forms(word) ==
  (IF endswith(word, s_ies) THEN <<drop_last(word, 3) \o <<"y">>>> ELSE <<>>)
  \o (IF endswith(word, s_oes) THEN <<drop_last(word, 2)>> ELSE <<>>)
  \o (IF endswith(word, s_s) /\ ~endswith(word, s_ss) /\ ~endswith(word, s_ies)
      THEN <<drop_last(word, 1)>> ELSE <<>>)

singularize_candidates(name) ==
  LET words == split(name)
  IN IF Len(words) = 1 THEN singular_forms(name)
     ELSE IF Len(words) > 1
          THEN LET last_word == words[Len(words)]
                   forms == singular_forms(last_word)
               IN [i \in 1..Len(forms) |-> join(SubSeq(words, 1, Len(words) - 1) \o <<forms[i]>>)]
          ELSE <<>>

\* outcome of a handler: the stores it leaves, what it returned, whether it raised
Returned(refs, als, ret, tier) ==
  [refs |-> refs, als |-> als, ret |-> ret, tier |-> tier, raised |-> FALSE]
Raised(refs, als) ==
  [refs |-> refs, als |-> als, ret |-> None, tier |-> 0, raised |-> TRUE]

\* get-or-create that skips the two lookups and always inserts
get_or_create_canonical_no_lookup(refs, canonical_name) ==
  create_ingredient_reference(refs, canonical_name, canonical_name)

get_or_create_canonical(refs, canonical_name) ==
  LET by_name == get_ingredient_by_name(refs, canonical_name)
      by_norm == get_ingredient_by_normalized_name(refs, canonical_name)
  IN IF Multiple(by_name) THEN [raised |-> TRUE, refs |-> refs, id |-> None]
     ELSE IF by_name # {} THEN [raised |-> FALSE, refs |-> refs, id |-> One(by_name).id]
     ELSE IF Multiple(by_norm) THEN [raised |-> TRUE, refs |-> refs, id |-> None]
     ELSE IF by_norm # {} THEN [raised |-> FALSE, refs |-> refs, id |-> One(by_norm).id]
     ELSE create_ingredient_reference(refs, canonical_name, canonical_name)

\* ids found by "name, else normalized_name" for one candidate (tier 5)
lookup_name_or_norm(refs, name) ==
  LET by_name == get_ingredient_by_name(refs, name)
      by_norm == get_ingredient_by_normalized_name(refs, name)
  IN IF Multiple(by_name) THEN [raised |-> TRUE, found |-> FALSE, id |-> None]
     ELSE IF by_name # {} THEN [raised |-> FALSE, found |-> TRUE, id |-> One(by_name).id]
     ELSE IF Multiple(by_norm) THEN [raised |-> TRUE, found |-> FALSE, id |-> None]
     ELSE IF by_norm # {} THEN [raised |-> FALSE, found |-> TRUE, id |-> One(by_norm).id]
     ELSE [raised |-> FALSE, found |-> FALSE, id |-> None]

\* the alias row for name is an identity's id, or None when the row dangles
alias_target(refs, alias_row) ==
  LET rows == get_ingredient_by_id(refs, alias_row.ingredient_id)
  IN IF rows = {} THEN None ELSE Some(One(rows).id)

\* tier 5: the candidates in order, first one stored wins
RECURSIVE singular_in_db(_, _, _, _, _)
singular_in_db(refs, als, normalized_name, cands, i) ==
  IF i > Len(cands) THEN [hit |-> FALSE, out |-> Returned(refs, als, None, 0)]
  ELSE LET l == lookup_name_or_norm(refs, cands[i])
       IN IF l.raised THEN [hit |-> TRUE, out |-> Raised(refs, als)]
          ELSE IF l.found
               THEN [hit |-> TRUE,
                     out |-> Returned(refs, create_ingredient_alias(als, normalized_name, l.id),
                                      Some(l.id), 5)]
               ELSE singular_in_db(refs, als, normalized_name, cands, i + 1)

created_as(refs, als, c, tier) ==
  IF c.raised THEN Raised(refs, als) ELSE Returned(c.refs, als, Some(c.id), tier)

\* tiers 3 and 4 inserting a new identity for the resolved text, normalized to the
\* canonical name, instead of reusing the canonical identity
aliased_to_canonical_new_row(refs, als, normalized_name, canonical_name, tier) ==
  LET id == new_id(normalized_name)
  IN Returned(refs \cup {[id |-> id, name |-> normalized_name, normalized_name |-> canonical_name,
                          avg_weight_grams |-> None, weight_source |-> None]},
              als, Some(id), tier)

\* tiers 3 and 4 returning the canonical identity without storing the alias
aliased_to_canonical_no_alias(refs, als, normalized_name, canonical_name, tier) ==
  LET c == get_or_create_canonical(refs, canonical_name)
  IN IF c.raised THEN Raised(refs, als) ELSE Returned(c.refs, als, Some(c.id), tier)

aliased_to_canonical(refs, als, normalized_name, canonical_name, tier) ==
  LET c == get_or_create_canonical(refs, canonical_name)
  IN IF c.raised THEN Raised(refs, als)
     ELSE Returned(c.refs, create_ingredient_alias(als, normalized_name, c.id), Some(c.id), tier)

\* tiers 3 to 7 of the resolver, reached when neither an identity nor an alias row was
\* found for normalized_name
resolve_after_alias_lookup(refs, als, normalized_name) ==
  LET canonical_name == find_canonical_in_seeds(normalized_name)
      cands == singularize_candidates(normalized_name)
      in_weights == {i \in 1..Len(cands) : in_manual_weights(cands[i])}
      db == singular_in_db(refs, als, normalized_name, cands, 1)
  IN IF canonical_name # None
     THEN aliased_to_canonical(refs, als, normalized_name, canonical_name[1], 3)
     ELSE IF in_weights # {}
          THEN aliased_to_canonical(refs, als, normalized_name,
                                    cands[CHOOSE i \in in_weights : \A j \in in_weights : i <= j], 4)
     ELSE IF db.hit THEN db.out
     ELSE IF in_manual_weights(normalized_name)
          THEN created_as(refs, als, create_ingredient_reference(refs, normalized_name, normalized_name), 6)
     ELSE created_as(refs, als, create_ingredient_reference(refs, normalized_name, normalized_name), 7)

\* tiers 2 to 7 of the resolver, reached when no identity is named normalized_name
resolve_after_exact_match(refs, als, normalized_name) ==
  LET alias == get_alias_by_text(als, normalized_name)
  IN IF Multiple(alias) THEN Raised(refs, als)
     ELSE IF alias # {} THEN Returned(refs, als, alias_target(refs, One(alias)), 2)
     ELSE resolve_after_alias_lookup(refs, als, normalized_name)

\* the resolver with the alias lookup placed before the exact match
find_or_create_ingredient_alias_first(refs, als, normalized_name) ==
  LET by_name == get_ingredient_by_name(refs, normalized_name)
      by_norm == get_ingredient_by_normalized_name(refs, normalized_name)
      alias == get_alias_by_text(als, normalized_name)
  IN IF alias # {} \/ (by_name = {} /\ by_norm = {})
     THEN resolve_after_exact_match(refs, als, normalized_name)
     ELSE IF by_name # {} THEN Returned(refs, als, Some(One(by_name).id), 1)
     ELSE Returned(refs, als, Some(One(by_norm).id), 1)

find_or_create_ingredient(refs, als, normalized_name) ==
  LET by_name == get_ingredient_by_name(refs, normalized_name)
      by_norm == get_ingredient_by_normalized_name(refs, normalized_name)
  IN IF Multiple(by_name) THEN Raised(refs, als)
     ELSE IF by_name # {} THEN Returned(refs, als, Some(One(by_name).id), 1)
     ELSE IF Multiple(by_norm) THEN Raised(refs, als)
     ELSE IF by_norm # {} THEN Returned(refs, als, Some(One(by_norm).id), 1)
     ELSE resolve_after_exact_match(refs, als, normalized_name)


(* --------------------------- alias seeding ----------------------------- *)

\* the inner loop of seed_ingredient_aliases over one row's aliases
RECURSIVE seed_aliases_of(_, _, _, _)
seed_aliases_of(st, aliases, ingredient_id, j) ==
  IF j > Len(aliases) \/ st.raised THEN st
  ELSE LET existing == get_alias_by_text(st.als, aliases[j])
       IN IF Multiple(existing) THEN [st EXCEPT !.raised = TRUE]
          ELSE IF existing # {}
               THEN seed_aliases_of([st EXCEPT !.skipped = @ + 1], aliases, ingredient_id, j + 1)
               ELSE seed_aliases_of(
                      [st EXCEPT !.als = create_ingredient_alias(@, aliases[j], ingredient_id),
                                 !.created_aliases = @ + 1],
                      aliases, ingredient_id, j + 1)

\* the outer loop of seed_ingredient_aliases over the seed table's rows
RECURSIVE seed_rows(_, _)
seed_rows(st, i) ==
  IF i > Len(INGREDIENT_ALIAS_SEEDS) \/ st.raised THEN st
  ELSE LET row == INGREDIENT_ALIAS_SEEDS[i]
           existed == \E r \in st.refs : r.name = row.canonical \/ r.normalized_name = row.canonical
           c == get_or_create_canonical(st.refs, row.canonical)
       IN IF c.raised THEN [st EXCEPT !.raised = TRUE]
          ELSE seed_rows(
                 seed_aliases_of(
                   [st EXCEPT !.refs = c.refs,
                              !.created_ingredients = IF existed THEN @ ELSE @ + 1],
                   row.aliases, c.id, 1),
                 i + 1)

\* seeding that skips only the aliases it has inserted itself, not the stored ones
seed_ingredient_aliases_unchecked(refs, als) ==
  LET inserted(st) ==
        [st EXCEPT !.als =
           als \cup {[a EXCEPT !.nth =
                        Cardinality({b \in als : b.alias = a.alias
                                                 /\ b.ingredient_id = a.ingredient_id}) + 1] :
                     a \in st.als}]
  IN inserted(seed_rows([refs |-> refs, als |-> {}, created_ingredients |-> 0,
                         created_aliases |-> 0, skipped |-> 0, raised |-> FALSE], 1))

seed_ingredient_aliases(refs, als) ==
  seed_rows([refs |-> refs, als |-> als, created_ingredients |-> 0, created_aliases |-> 0,
             skipped |-> 0, raised |-> FALSE], 1)

(* ------------------------- product auto-mapping ------------------------ *)

\* The rows find_ingredient_fuzzy may return: a shortest normalized_name among the
\* substring matches.  min() keeps the first shortest row of an unordered SELECT, so
\* every shortest match is a possible result.
find_ingredient_fuzzy(refs, search_text) ==
  LET search_lower == lower(search_text)
      matches == {r \in refs : \/ contains(search_lower, lower(r.normalized_name))
                               \/ contains(lower(r.normalized_name), search_lower)}
  IN {r \in matches : \A m \in matches : Len(r.normalized_name) <= Len(m.normalized_name)}

\* mapping that stores the normalized alias without looking for an existing one
map_to_ingredient_unchecked(als, product_name, normalized, ingredient) ==
  LET als1 == create_ingredient_alias(als, product_name, ingredient.id)
  IN IF normalized # product_name /\ normalized # ingredient.name
     THEN [raised |-> FALSE, als |-> create_ingredient_alias(als1, normalized, ingredient.id)]
     ELSE [raised |-> FALSE, als |-> als1]

\* the alias rows written once a product name has been matched to an identity
map_to_ingredient(als, product_name, normalized, ingredient) ==
  LET als1 == create_ingredient_alias(als, product_name, ingredient.id)
      existing_normalized_alias == get_alias_by_text(als1, normalized)
  IN IF normalized # product_name /\ normalized # ingredient.name
     THEN IF Multiple(existing_normalized_alias) THEN [raised |-> TRUE, als |-> als1]
          ELSE IF existing_normalized_alias = {}
               THEN [raised |-> FALSE, als |-> create_ingredient_alias(als1, normalized, ingredient.id)]
               ELSE [raised |-> FALSE, als |-> als1]
     ELSE [raised |-> FALSE, als |-> als1]

\* the possible outcomes of auto_map_product_to_ingredient
auto_map_product_to_ingredient(refs, als, product_name) ==
  LET existing_alias == get_alias_by_text(als, product_name)
      normalized == normalize_ingredient_text(product_name)
      exact == get_ingredient_by_normalized_name(refs, normalized)
      fuzzy == find_ingredient_fuzzy(refs, normalized)
  IN IF Multiple(existing_alias) THEN {[raised |-> TRUE, als |-> als]}
     ELSE IF existing_alias # {} THEN {[raised |-> FALSE, als |-> als]}
     ELSE IF normalized = <<>> THEN {[raised |-> FALSE, als |-> als]}
     ELSE IF Multiple(exact) THEN {[raised |-> TRUE, als |-> als]}
     ELSE IF exact # {} THEN {map_to_ingredient(als, product_name, normalized, One(exact))}
     ELSE IF fuzzy # {} THEN {map_to_ingredient(als, product_name, normalized, r) : r \in fuzzy}
     ELSE {[raised |-> FALSE, als |-> als]}

\* product rows in insertion order (products are never updated or deleted)
RECURSIVE rows_by_id(_)
rows_by_id(rows) ==
  IF rows = {} THEN <<>>
  ELSE LET first == CHOOSE r \in rows : \A q \in rows : r.id <= q.id
       IN <<first>> \o rows_by_id(rows \ {first})

\* the possible outcomes of the loop of map_all_products_to_ingredients from product i on
RECURSIVE map_products_from(_, _, _, _)
map_products_from(refs, st, products, i) ==
  IF i > Len(products) \/ st.raised THEN {st}
  ELSE LET name == products[i].name
           existing_alias == get_alias_by_text(st.als, name)
           normalized == normalize_ingredient_text(name)
           exact == get_ingredient_by_normalized_name(refs, normalized)
           fuzzy == find_ingredient_fuzzy(refs, normalized)
           mapped(m) == IF m.raised THEN [st EXCEPT !.als = m.als, !.raised = TRUE]
                        ELSE [st EXCEPT !.als = m.als, !.mapped_count = @ + 1]
           after == IF Multiple(existing_alias) THEN {[st EXCEPT !.raised = TRUE]}
                    ELSE IF existing_alias # {} THEN {[st EXCEPT !.skipped_count = @ + 1]}
                    ELSE IF normalized = <<>> THEN {st}
                    ELSE IF Multiple(exact) THEN {[st EXCEPT !.raised = TRUE]}
                    ELSE IF exact # {}
                         THEN {mapped(map_to_ingredient(st.als, name, normalized, One(exact)))}
                    ELSE IF fuzzy # {}
                         THEN {mapped(map_to_ingredient(st.als, name, normalized, r)) : r \in fuzzy}
                    ELSE {st}
       IN UNION {map_products_from(refs, s, products, i + 1) : s \in after}

map_all_products_to_ingredients(refs, als, prods) ==
  map_products_from(refs, [als |-> als, mapped_count |-> 0, skipped_count |-> 0, raised |-> FALSE],
                    rows_by_id(prods), 1)


(* --------------------------- exact quantities -------------------------- *)

\* Quantities are exact fractions n/d with d > 0, in lowest terms.
abs(x) == IF x < 0 THEN -x ELSE x

RECURSIVE gcd(_, _)
gcd(a, b) == IF b = 0 THEN a ELSE gcd(b, a % b)

Rat(n, d) ==
  LET g == gcd(abs(n), abs(d))
      s == IF d < 0 THEN -1 ELSE 1
  IN [n |-> (s * n) \div g, d |-> (s * d) \div g]

q_int(i) == [n |-> i, d |-> 1]
q_mul(a, b) == Rat(a.n * b.n, a.d * b.d)
q_div(a, b) == Rat(a.n * b.d, a.d * b.n)
q_add(a, b) == Rat(a.n * b.d + b.n * a.d, a.d * b.d)
q_ge(a, b) == a.n * b.d >= b.n * a.d
q_zero(a) == a.n = 0

(* --------------------------- products and items ------------------------ *)

s_unit_g == <<"g">>

get_product_by_barcode(prods, barcode) == {p \in prods : p.barcode = Some(barcode)}
get_product_by_name(prods, name, product_type) ==
  {p \in prods : p.name = name /\ p.product_type = product_type}

create_product(prods, name, barcode, product_type, package_quantity, package_unit) ==
  prods \cup {[id |-> Cardinality(prods) + 1, product_type |-> product_type, barcode |-> barcode,
               name |-> name, package_quantity |-> package_quantity,
               package_unit |-> package_unit]}

get_item_by_product_and_location(its, product_reference_id, location) ==
  {it \in its : it.product_reference_id = product_reference_id /\ it.location = location}

create_item(its, product_reference_id, location, qty) ==
  its \cup {[product_reference_id |-> product_reference_id, location |-> location, qty |-> qty]}

\* returns the stored item, or None when there is no item or it was deleted
adjust_item_quantity(its, product_reference_id, location, delta) ==
  LET found == get_item_by_product_and_location(its, product_reference_id, location)
  IN IF found = {} THEN [items |-> its, ret |-> None]
     ELSE LET item == One(found)
              new_qty == item.qty + delta
          IN IF new_qty <= 0 THEN [items |-> its \ {item}, ret |-> None]
             ELSE [items |-> (its \ {item}) \cup {[item EXCEPT !.qty = new_qty]},
                   ret |-> Some([item EXCEPT !.qty = new_qty])]

\* the source is debited, then the destination credited, each by adjust_item_quantity;
\* the result is that of the credit
move_item(its, product_reference_id, from_location, to_location, quantity) ==
  LET credited(debit) ==
        adjust_item_quantity(debit.items, product_reference_id, to_location, quantity)
  IN credited(adjust_item_quantity(its, product_reference_id, from_location, 0 - quantity))

\* POST /move: the moved item, or the 404 answer when move_item returned none
move_item_between_locations(its, payload) ==
  LET answered(o) == [items |-> o.items, ret |-> o.ret, not_found |-> o.ret = None]
  IN answered(move_item(its, payload.product_reference_id, payload.from_location,
                        payload.to_location, payload.quantity))

\* "increments if exists, creates if not", shared by scan_product and add_fresh_item
upsert_item(its, product_reference_id, location) ==
  IF get_item_by_product_and_location(its, product_reference_id, location) # {}
  THEN adjust_item_quantity(its, product_reference_id, location, 1).items
  ELSE create_item(its, product_reference_id, location, 1)

(* ---------------------------- unit converter -------------------------- *)

\* the spelling lists of standardize_unit, in the order they are tested
unit_spellings ==
  <<
     [to |-> <<"g">>,
      spellings |-> {
        <<"g">>, <<"g", "r">>, <<"g", "r", "a", "m">>, <<"g", "r", "a", "m", "s">>}],
     [to |-> <<"k", "g">>,
      spellings |-> {
        <<"k", "g">>, <<"k", "i", "l", "o">>, <<"k", "i", "l", "o", "g", "r", "a", "m">>,
        <<"k", "i", "l", "o", "g", "r", "a", "m", "s">>}],
     [to |-> <<"o", "z">>,
      spellings |-> {
        <<"o", "z">>, <<"o", "u", "n", "c", "e">>, <<"o", "u", "n", "c", "e", "s">>}],
     [to |-> <<"l", "b">>,
      spellings |-> {
        <<"l", "b">>, <<"l", "b", "s">>, <<"p", "o", "u", "n", "d">>,
        <<"p", "o", "u", "n", "d", "s">>}],
     [to |-> <<"m", "l">>,
      spellings |-> {
        <<"m", "l">>, <<"m", "i", "l", "l", "i", "l", "i", "t", "e", "r">>,
        <<"m", "i", "l", "l", "i", "l", "i", "t", "e", "r", "s">>,
        <<"m", "i", "l", "l", "i", "l", "i", "t", "r", "e">>,
        <<"m", "i", "l", "l", "i", "l", "i", "t", "r", "e", "s">>}],
     [to |-> <<"l">>,
      spellings |-> {
        <<"l">>, <<"l", "i", "t", "e", "r">>, <<"l", "i", "t", "e", "r", "s">>,
        <<"l", "i", "t", "r", "e">>, <<"l", "i", "t", "r", "e", "s">>}],
     [to |-> <<"c", "l">>,
      spellings |-> {
        <<"c", "l">>, <<"c", "e", "n", "t", "i", "l", "i", "t", "e", "r">>,
        <<"c", "e", "n", "t", "i", "l", "i", "t", "e", "r", "s">>}],
     [to |-> <<"c", "u", "p">>,
      spellings |-> {
        <<"c", "u", "p">>, <<"c", "u", "p", "s">>, <<"c">>}],
     [to |-> <<"t", "b", "s", "p">>,
      spellings |-> {
        <<"t", "b", "s", "p">>, <<"t", "a", "b", "l", "e", "s", "p", "o", "o", "n">>,
        <<"t", "a", "b", "l", "e", "s", "p", "o", "o", "n", "s">>, <<"t", "b", "s">>, <<"T">>}],
     [to |-> <<"t", "s", "p">>,
      spellings |-> {
        <<"t", "s", "p">>, <<"t", "e", "a", "s", "p", "o", "o", "n">>,
        <<"t", "e", "a", "s", "p", "o", "o", "n", "s">>, <<"t">>}],
     [to |-> <<"f", "l", " ", "o", "z">>,
      spellings |-> {
        <<"f", "l", " ", "o", "z">>, <<"f", "l", "o", "z">>,
        <<"f", "l", "u", "i", "d", " ", "o", "u", "n", "c", "e">>,
        <<"f", "l", "u", "i", "d", " ", "o", "u", "n", "c", "e", "s">>}],
     [to |-> <<"p", "i", "n", "t">>,
      spellings |-> {
        <<"p", "i", "n", "t">>, <<"p", "i", "n", "t", "s">>, <<"p", "t">>}],
     [to |-> <<"q", "u", "a", "r", "t">>,
      spellings |-> {
        <<"q", "u", "a", "r", "t">>, <<"q", "u", "a", "r", "t", "s">>, <<"q", "t">>}],
     [to |-> <<"g", "a", "l", "l", "o", "n">>,
      spellings |-> {
        <<"g", "a", "l">>, <<"g", "a", "l", "l", "o", "n">>,
        <<"g", "a", "l", "l", "o", "n", "s">>}],
     [to |-> <<"u", "n", "i", "t">>,
      spellings |-> {
        <<"u", "n", "i", "t">>, <<"u", "n", "i", "t", "s">>, <<"p", "i", "e", "c", "e">>,
        <<"p", "i", "e", "c", "e", "s">>, <<"i", "t", "e", "m">>, <<"i", "t", "e", "m", "s">>,
        <<"p", "c", "s">>, <<"p", "c">>, <<"w", "h", "o", "l", "e">>,
        <<"c", "o", "u", "n", "t">>, <<"c", "l", "o", "v", "e">>,
        <<"c", "l", "o", "v", "e", "s">>, <<"p", "a", "c", "k", "e", "t">>,
        <<"p", "a", "c", "k", "e", "t", "s">>, <<"s", "e", "r", "v", "i", "n", "g">>,
        <<"s", "e", "r", "v", "i", "n", "g", "s">>, <<"b", "a", "g">>, <<"b", "a", "g", "s">>,
        <<"c", "a", "n">>, <<"c", "a", "n", "s">>, <<"j", "a", "r">>, <<"j", "a", "r", "s">>,
        <<"b", "o", "t", "t", "l", "e">>, <<"b", "o", "t", "t", "l", "e", "s">>,
        <<"b", "o", "x">>, <<"b", "o", "x", "e", "s">>, <<"s", "m", "a", "l", "l">>,
        <<"m", "e", "d", "i", "u", "m">>, <<"l", "a", "r", "g", "e">>, <<"h", "e", "a", "d">>,
        <<"h", "e", "a", "d", "s">>, <<"b", "u", "n", "c", "h">>,
        <<"b", "u", "n", "c", "h", "e", "s">>, <<"s", "l", "i", "c", "e">>,
        <<"s", "l", "i", "c", "e", "s">>, <<"s", "t", "a", "l", "k">>,
        <<"s", "t", "a", "l", "k", "s">>, <<"s", "p", "r", "i", "g">>,
        <<"s", "p", "r", "i", "g", "s">>, <<"l", "e", "a", "f">>,
        <<"l", "e", "a", "v", "e", "s">>}],
     [to |-> <<"d", "o", "z", "e", "n">>,
      spellings |-> {
        <<"d", "o", "z", "e", "n">>, <<"d", "o", "z">>}]
  >>

DRY_INGREDIENT_DENSITIES ==
  {
    [key |-> <<"f", "l", "o", "u", "r">>, value |-> [n |-> 120, d |-> 1]],
    [key |-> <<"a", "l", "l", "-", "p", "u", "r", "p", "o", "s", "e", " ", "f", "l", "o", "u", "r">>,
     value |-> [n |-> 120, d |-> 1]],
    [key |-> <<"b", "r", "e", "a", "d", " ", "f", "l", "o", "u", "r">>,
     value |-> [n |-> 127, d |-> 1]],
    [key |-> <<"c", "a", "k", "e", " ", "f", "l", "o", "u", "r">>, value |-> [n |-> 114, d |-> 1]],
    [key |-> <<"w", "h", "o", "l", "e", " ", "w", "h", "e", "a", "t", " ", "f", "l", "o", "u", "r">>,
     value |-> [n |-> 120, d |-> 1]],
    [key |-> <<"s", "u", "g", "a", "r">>, value |-> [n |-> 200, d |-> 1]],
    [key |-> <<"w", "h", "i", "t", "e", " ", "s", "u", "g", "a", "r">>,
     value |-> [n |-> 200, d |-> 1]],
    [key |-> <<"g", "r", "a", "n", "u", "l", "a", "t", "e", "d", " ", "s", "u", "g", "a", "r">>,
     value |-> [n |-> 200, d |-> 1]],
    [key |-> <<"b", "r", "o", "w", "n", " ", "s", "u", "g", "a", "r">>,
     value |-> [n |-> 220, d |-> 1]],
    [key |-> <<"p", "o", "w", "d", "e", "r", "e", "d", " ", "s", "u", "g", "a", "r">>,
     value |-> [n |-> 120, d |-> 1]],
    [key |-> <<"c", "o", "n", "f", "e", "c", "t", "i", "o", "n", "e", "r", "s", " ", "s", "u", "g", "a", "r">>,
     value |-> [n |-> 120, d |-> 1]],
    [key |-> <<"b", "u", "t", "t", "e", "r">>, value |-> [n |-> 227, d |-> 1]],
    [key |-> <<"c", "o", "c", "o", "a", " ", "p", "o", "w", "d", "e", "r">>,
     value |-> [n |-> 85, d |-> 1]],
    [key |-> <<"o", "a", "t", "s">>, value |-> [n |-> 90, d |-> 1]],
    [key |-> <<"r", "i", "c", "e">>, value |-> [n |-> 185, d |-> 1]],
    [key |-> <<"s", "a", "l", "t">>, value |-> [n |-> 292, d |-> 1]],
    [key |-> <<"b", "a", "k", "i", "n", "g", " ", "s", "o", "d", "a">>,
     value |-> [n |-> 220, d |-> 1]],
    [key |-> <<"b", "a", "k", "i", "n", "g", " ", "p", "o", "w", "d", "e", "r">>,
     value |-> [n |-> 192, d |-> 1]]
  }

LIQUID_INGREDIENT_DENSITIES ==
  {
    [key |-> <<"m", "i", "l", "k">>, value |-> [n |-> 240, d |-> 1]],
    [key |-> <<"w", "a", "t", "e", "r">>, value |-> [n |-> 240, d |-> 1]],
    [key |-> <<"o", "i", "l">>, value |-> [n |-> 240, d |-> 1]],
    [key |-> <<"v", "e", "g", "e", "t", "a", "b", "l", "e", " ", "o", "i", "l">>,
     value |-> [n |-> 240, d |-> 1]],
    [key |-> <<"o", "l", "i", "v", "e", " ", "o", "i", "l">>, value |-> [n |-> 216, d |-> 1]],
    [key |-> <<"h", "o", "n", "e", "y">>, value |-> [n |-> 340, d |-> 1]],
    [key |-> <<"m", "a", "p", "l", "e", " ", "s", "y", "r", "u", "p">>,
     value |-> [n |-> 312, d |-> 1]],
    [key |-> <<"v", "a", "n", "i", "l", "l", "a", " ", "e", "x", "t", "r", "a", "c", "t">>,
     value |-> [n |-> 240, d |-> 1]]
  }

WEIGHT_TO_GRAMS ==
  {
    [key |-> <<"g">>, value |-> [n |-> 1, d |-> 1]],
    [key |-> <<"k", "g">>, value |-> [n |-> 1000, d |-> 1]],
    [key |-> <<"o", "z">>, value |-> [n |-> 567, d |-> 20]],
    [key |-> <<"l", "b">>, value |-> [n |-> 45359, d |-> 100]],
    [key |-> <<"l", "b", "s">>, value |-> [n |-> 45359, d |-> 100]]
  }

VOLUME_TO_ML ==
  {
    [key |-> <<"m", "l">>, value |-> [n |-> 1, d |-> 1]],
    [key |-> <<"l">>, value |-> [n |-> 1000, d |-> 1]],
    [key |-> <<"c", "l">>, value |-> [n |-> 10, d |-> 1]],
    [key |-> <<"c", "u", "p">>, value |-> [n |-> 240, d |-> 1]],
    [key |-> <<"c", "u", "p", "s">>, value |-> [n |-> 240, d |-> 1]],
    [key |-> <<"t", "b", "s", "p">>, value |-> [n |-> 1479, d |-> 100]],
    [key |-> <<"t", "a", "b", "l", "e", "s", "p", "o", "o", "n">>,
     value |-> [n |-> 1479, d |-> 100]],
    [key |-> <<"t", "a", "b", "l", "e", "s", "p", "o", "o", "n", "s">>,
     value |-> [n |-> 1479, d |-> 100]],
    [key |-> <<"t", "s", "p">>, value |-> [n |-> 493, d |-> 100]],
    [key |-> <<"t", "e", "a", "s", "p", "o", "o", "n">>, value |-> [n |-> 493, d |-> 100]],
    [key |-> <<"t", "e", "a", "s", "p", "o", "o", "n", "s">>, value |-> [n |-> 493, d |-> 100]],
    [key |-> <<"f", "l", " ", "o", "z">>, value |-> [n |-> 2957, d |-> 100]],
    [key |-> <<"f", "l", "o", "z">>, value |-> [n |-> 2957, d |-> 100]],
    [key |-> <<"p", "i", "n", "t">>, value |-> [n |-> 23659, d |-> 50]],
    [key |-> <<"q", "u", "a", "r", "t">>, value |-> [n |-> 18927, d |-> 20]],
    [key |-> <<"g", "a", "l", "l", "o", "n">>, value |-> [n |-> 378541, d |-> 100]]
  }

DISCRETE_UNITS == {<<"u", "n", "i", "t">>, <<"d", "o", "z", "e", "n">>}

LIQUID_KEYWORDS ==
  {
    <<"b", "e", "e", "r">>, <<"b", "r", "o", "t", "h">>,
    <<"b", "u", "t", "t", "e", "r", "m", "i", "l", "k">>, <<"c", "r", "e", "a", "m">>,
    <<"d", "r", "e", "s", "s", "i", "n", "g">>, <<"e", "x", "t", "r", "a", "c", "t">>,
    <<"g", "r", "a", "v", "y">>, <<"h", "o", "n", "e", "y">>, <<"j", "u", "i", "c", "e">>,
    <<"l", "i", "q", "u", "o", "r">>, <<"m", "a", "r", "i", "n", "a", "d", "e">>,
    <<"m", "i", "l", "k">>, <<"m", "o", "l", "a", "s", "s", "e", "s">>, <<"o", "i", "l">>,
    <<"s", "a", "u", "c", "e">>, <<"s", "t", "o", "c", "k">>, <<"s", "y", "r", "u", "p">>,
    <<"v", "i", "n", "e", "g", "a", "r">>, <<"w", "a", "t", "e", "r">>, <<"w", "i", "n", "e">>,
    <<"y", "o", "g", "u", "r", "t">>
  }

DEFAULT_DRY_DENSITY == 150

in_table(table, key) == \E e \in table : e.key = key
table_value(table, key) == (CHOOSE e \in table : e.key = key).value

\* standardize_unit without the test for a text that is blank after trimming
standardize_unit_blank_unchecked(unit) ==
  LET spelled(u) ==
        LET first_row(hits) ==
              IF hits # {}
              THEN unit_spellings[CHOOSE i \in hits : \A j \in hits : i <= j].to
              ELSE u
        IN first_row({i \in 1..Len(unit_spellings) : u \in unit_spellings[i].spellings})
  IN IF unit = <<>> THEN <<"u", "n", "i", "t">> ELSE spelled(strip(lower(unit)))

standardize_unit(unit) ==
  LET spelled(u) ==
        LET first_row(hits) ==
              IF hits # {}
              THEN unit_spellings[CHOOSE i \in hits : \A j \in hits : i <= j].to
              ELSE u
        IN IF u = <<>> THEN <<"u", "n", "i", "t">>
           ELSE first_row({i \in 1..Len(unit_spellings) : u \in unit_spellings[i].spellings})
  IN IF unit = <<>> THEN <<"u", "n", "i", "t">> ELSE spelled(strip(lower(unit)))

\* is_likely_liquid taking a keyword for the whole name instead of a part of it
is_likely_liquid_whole_name(ingredient_name) ==
  ingredient_name # <<>> /\ lower(ingredient_name) \in LIQUID_KEYWORDS

is_likely_liquid(ingredient_name) ==
  IF ingredient_name = <<>> THEN FALSE
  ELSE LET name_lower(n) == \E keyword \in LIQUID_KEYWORDS : contains(n, keyword)
       IN name_lower(lower(ingredient_name))

Conversion(quantity, base_unit, conversion_confidence) ==
  [quantity |-> quantity, base_unit |-> base_unit,
   conversion_confidence |-> conversion_confidence]

\* ingredient_name is <<>> when the caller passes none
convert_to_base_unit(quantity, unit_in, ingredient_name) ==
  LET converted(unit, ingredient_norm) ==
        LET by_volume(ml_value, cups) ==
              IF ingredient_norm # <<>> /\ in_table(DRY_INGREDIENT_DENSITIES, ingredient_norm)
              THEN Conversion(q_mul(cups, table_value(DRY_INGREDIENT_DENSITIES, ingredient_norm)),
                              <<"g">>, "high")
              ELSE IF ingredient_norm # <<>>
                      /\ in_table(LIQUID_INGREDIENT_DENSITIES, ingredient_norm)
              THEN Conversion(ml_value, <<"m", "l">>, "high")
              ELSE IF ingredient_name # <<>>
              THEN IF is_likely_liquid(ingredient_name)
                   THEN Conversion(ml_value, <<"m", "l">>, "medium")
                   ELSE Conversion(q_mul(cups, q_int(DEFAULT_DRY_DENSITY)), <<"g">>, "medium")
              ELSE Conversion(ml_value, <<"m", "l">>, "low")
            in_cups(ml_value) == by_volume(ml_value, q_div(ml_value, q_int(240)))
        IN IF unit \in DISCRETE_UNITS
           THEN IF unit = <<"d", "o", "z", "e", "n">>
                THEN Conversion(q_mul(quantity, q_int(12)), <<"u", "n", "i", "t">>, "high")
                ELSE Conversion(quantity, <<"u", "n", "i", "t">>, "high")
           ELSE IF in_table(WEIGHT_TO_GRAMS, unit)
           THEN Conversion(q_mul(quantity, table_value(WEIGHT_TO_GRAMS, unit)), <<"g">>, "high")
           ELSE IF in_table(VOLUME_TO_ML, unit)
           THEN in_cups(q_mul(quantity, table_value(VOLUME_TO_ML, unit)))
           ELSE Conversion(quantity, unit, "low")
  IN IF unit_in = <<>> \/ strip(unit_in) = <<>>
     THEN Conversion(quantity, <<"u", "n", "i", "t">>, "high")
     ELSE converted(standardize_unit(strip(lower(unit_in))), strip(lower(ingredient_name)))

\* can_convert_units without its test for two equal tokens
can_convert_units_same_dimension_only(unit_a, unit_b) ==
  LET compared(a, b) ==
        \/ in_table(WEIGHT_TO_GRAMS, a) /\ in_table(WEIGHT_TO_GRAMS, b)
        \/ in_table(VOLUME_TO_ML, a) /\ in_table(VOLUME_TO_ML, b)
        \/ a \in DISCRETE_UNITS /\ b \in DISCRETE_UNITS
      standardized(u) == standardize_unit(IF u # <<>> THEN lower(u) ELSE <<>>)
      stripped(u) == IF u # <<>> THEN strip(u) ELSE <<>>
  IN compared(standardized(stripped(unit_a)), standardized(stripped(unit_b)))

can_convert_units(unit_a, unit_b) ==
  LET compared(a, b) ==
        \/ a = b
        \/ in_table(WEIGHT_TO_GRAMS, a) /\ in_table(WEIGHT_TO_GRAMS, b)
        \/ in_table(VOLUME_TO_ML, a) /\ in_table(VOLUME_TO_ML, b)
        \/ a \in DISCRETE_UNITS /\ b \in DISCRETE_UNITS
      standardized(u) == standardize_unit(IF u # <<>> THEN lower(u) ELSE <<>>)
      stripped(u) == IF u # <<>> THEN strip(u) ELSE <<>>
  IN compared(standardized(stripped(unit_a)), standardized(stripped(unit_b)))

get_unit_dimension(unit_in) ==
  LET dimension(unit) ==
        IF in_table(WEIGHT_TO_GRAMS, unit) THEN "weight"
        ELSE IF in_table(VOLUME_TO_ML, unit) THEN "volume"
        ELSE IF unit \in DISCRETE_UNITS THEN "count"
        ELSE "unknown"
  IN IF unit_in = <<>> \/ strip(unit_in) = <<>>
     THEN "count"
     ELSE dimension(standardize_unit(strip(lower(unit_in))))
(* ----------------------------- weight parser --------------------------- *)

NumberChars == Digits \cup {"."}

\* \w of the pattern's trailing \b, over the characters the texts are written in
WordChars ==
  Digits \cup {UpperChars[i] : i \in 1..26} \cup {LowerChars[i] : i \in 1..26} \cup {"_"}

weight_unit_words ==
  { <<"l", "b">>, <<"l", "b", "s">>, <<"p", "o", "u", "n", "d">>,
    <<"p", "o", "u", "n", "d", "s">>, <<"o", "z">>, <<"o", "u", "n", "c", "e">>,
    <<"o", "u", "n", "c", "e", "s">>, <<"g">>, <<"g", "r", "a", "m", "s">>,
    <<"g", "r", "a", "m">>, <<"k", "g">>, <<"k", "i", "l", "o">>,
    <<"k", "i", "l", "o", "g", "r", "a", "m", "s">>, <<"k", "i", "l", "o", "g", "r", "a", "m">> }

\* the last index of the longest run of characters of chars that starts at i (i - 1: none)
run_end(s, i, chars) ==
  CHOOSE j \in (i - 1)..Len(s) :
    /\ \A k \in i..j : s[k] \in chars
    /\ (j = Len(s) \/ s[j + 1] \notin chars)

\* ([0-9.]+)\s*(lb|lbs|...|kilogram)\b matched at position i, IGNORECASE
weight_match_at(s, i) ==
  LET number_to(j) ==
        LET spaces_to(k) ==
              LET unit_word(word) ==
                    IF j >= i /\ word \in weight_unit_words
                    THEN Some([quantity_str |-> SubSeq(s, i, j), unit |-> word])
                    ELSE None
              IN unit_word(lower(SubSeq(s, k + 1, run_end(s, k + 1, WordChars))))
        IN spaces_to(run_end(s, j + 1, {" "}))
  IN number_to(run_end(s, i, NumberChars))

RECURSIVE digits_value(_)
digits_value(ds) ==
  IF ds = <<>> THEN 0
  ELSE 10 * digits_value(SubSeq(ds, 1, Len(ds) - 1))
       + (CHOOSE v \in 0..9 : ToString(v) = ds[Len(ds)])

RECURSIVE pow10(_)
pow10(n) == IF n = 0 THEN 1 ELSE 10 * pow10(n - 1)

\* float(quantity_str) for a string of digits and dots: ValueError unless it holds at
\* least one digit and at most one dot
float_of(quantity_str) ==
  LET dots == {i \in 1..Len(quantity_str) : quantity_str[i] = "."}
      ds == SelectSeq(quantity_str, LAMBDA c : c # ".")
      decimals == IF dots = {} THEN 0 ELSE Len(quantity_str) - (CHOOSE i \in dots : TRUE)
  IN IF Cardinality(dots) > 1 \/ ds = <<>>
     THEN [raised |-> TRUE, value |-> None]
     ELSE [raised |-> FALSE, value |-> Some(Rat(digits_value(ds), pow10(decimals)))]

\* the first weight hint of the text: [raised, ret], ret = Some([quantity, unit]) or None
extract_weight_from_text(ingredient_text) ==
  LET hint(match, quantity) ==
        IF quantity.raised THEN [raised |-> TRUE, ret |-> None]
        ELSE [raised |-> FALSE,
              ret |-> Some([quantity |-> quantity.value[1], unit |-> match.unit])]
      parsed(match) == hint(match, float_of(match.quantity_str))
      matches(starts) ==
        IF starts = {} THEN [raised |-> FALSE, ret |-> None]
        ELSE parsed(weight_match_at(ingredient_text,
                                    CHOOSE i \in starts : \A j \in starts : i <= j)[1])
  IN IF ingredient_text = <<>> THEN [raised |-> FALSE, ret |-> None]
     ELSE matches({i \in 1..Len(ingredient_text) : weight_match_at(ingredient_text, i) # None})

(* ---------------------------- manual weights --------------------------- *)

get_manual_weight(ingredient_name) ==
  LET found(rows) == IF rows = {} THEN None ELSE Some(q_int((CHOOSE e \in rows : TRUE).grams))
      lookup(normalized) == found({e \in MANUAL_FRESH_WEIGHTS : e.key = normalized})
  IN lookup(strip(lower(ingredient_name)))

(* ------------------------- external weight provider -------------------- *)

\* A portion of a foodPortions array: amount and gramWeight are quantities or None
\* (absent), modifier and portionDescription are texts or None.
truthy_number(x) == x # None /\ ~q_zero(x[1])

portion_modifier(p) ==
  lower(IF p.modifier # None /\ p.modifier[1] # <<>> THEN p.modifier[1]
        ELSE IF p.portionDescription # None /\ p.portionDescription[1] # <<>>
             THEN p.portionDescription[1]
             ELSE <<>>)

extract_unit_weight_from_portions(portions) ==
  LET is_one(p) == p.amount[1] = q_int(1)
      first(S) == CHOOSE i \in S : \A j \in S : i <= j
      chosen(valid, medium, ones) ==
        IF medium # {} THEN Some(valid[first(medium)].gramWeight[1])
        ELSE IF ones # {} THEN Some(valid[first(ones)].gramWeight[1])
        ELSE Some(q_div(valid[1].gramWeight[1], valid[1].amount[1]))
      among(valid) ==
        IF valid = <<>> THEN None
        ELSE chosen(valid,
                    {i \in 1..Len(valid) :
                       /\ is_one(valid[i])
                       /\ contains(portion_modifier(valid[i]), <<"m", "e", "d", "i", "u", "m">>)},
                    {i \in 1..Len(valid) : is_one(valid[i])})
  IN IF portions = <<>> THEN None
     ELSE among(SelectSeq(portions,
                          LAMBDA p : truthy_number(p.gramWeight) /\ truthy_number(p.amount)))

\* What the provider does during one call is the record world:
\*   api_key  - whether USDA_API_KEY is configured
\*   search   - [outcome, status_code, body]: outcome is "timeout" or "response", body
\*              the foods of the answer, records whose fdcId is Some(id), or None when
\*              the field is missing
\*   detail   - [outcome, status_code, body], body the foodPortions of the answer
\* Every exception raised inside the try block is caught and answered with None.
get_average_weight(world) ==
  IF ~world.api_key THEN None
  ELSE IF world.search.outcome = "timeout" THEN None
  ELSE IF world.search.status_code # 200 THEN None
  ELSE IF world.search.body = <<>> THEN None
  ELSE IF world.search.body[1].fdcId = None THEN None
  ELSE IF world.detail.outcome = "timeout" THEN None
  ELSE IF world.detail.status_code # 200 THEN None
  ELSE LET found(weight) == IF truthy_number(weight) THEN weight ELSE None
       IN found(extract_unit_weight_from_portions(world.detail.body))

(* --------------------------- weight estimation ------------------------- *)

update_avg_weight(refs, ingredient_id, avg_weight_grams, weight_source) ==
  {IF r.id = ingredient_id
   THEN [r EXCEPT !.avg_weight_grams = Some(avg_weight_grams),
                  !.weight_source = Some(weight_source)]
   ELSE r : r \in refs}

Estimated(refs, ret, consulted) ==
  [refs |-> refs, ret |-> ret, consulted |-> consulted, raised |-> FALSE]

EstimateFailed(refs, consulted) ==
  [refs |-> refs, ret |-> None, consulted |-> consulted, raised |-> TRUE]

Weight(quantity, source) == [quantity |-> quantity, unit |-> <<"g">>, source |-> source]

\* The three tiers, run when no weight is cached.  Each tier maps the values of
\* weight_per_unit and source to their values after it; consulted lists the tiers that
\* were asked, in the order they were asked.
lookup_weight_tiers(refs, ingredient_ref, count, original_text, world) ==
  LET tiers(weight_per_unit, source, consulted, raised) ==
        [weight_per_unit |-> weight_per_unit, source |-> source, consulted |-> consulted,
         raised |-> raised]
      recipe_text(weight_hint) ==
        IF weight_hint.raised THEN tiers(None, None, <<"recipe_text">>, TRUE)
        ELSE IF weight_hint.ret = None THEN tiers(None, None, <<"recipe_text">>, FALSE)
        ELSE IF q_zero(count) THEN tiers(None, None, <<"recipe_text">>, TRUE)
        ELSE tiers(Some(q_div(convert_to_base_unit(weight_hint.ret[1].quantity,
                                                   weight_hint.ret[1].unit,
                                                   ingredient_ref.name).quantity, count)),
                   Some("recipe_text"), <<"recipe_text">>, FALSE)
      manual_found(t, manual_weight) ==
        IF truthy_number(manual_weight)
        THEN tiers(manual_weight, Some("manual"), Append(t.consulted, "manual"), FALSE)
        ELSE [t EXCEPT !.consulted = Append(t.consulted, "manual")]
      manual(t) ==
        IF t.raised \/ truthy_number(t.weight_per_unit) THEN t
        ELSE manual_found(t, get_manual_weight(ingredient_ref.name))
      usda_found(t, usda_weight) ==
        IF truthy_number(usda_weight)
        THEN tiers(usda_weight, Some("usda"), Append(t.consulted, "usda"), FALSE)
        ELSE [t EXCEPT !.consulted = Append(t.consulted, "usda")]
      usda(t) ==
        IF t.raised \/ truthy_number(t.weight_per_unit) THEN t
        ELSE usda_found(t, get_average_weight(world))
      cached(t) ==
        IF t.raised THEN EstimateFailed(refs, t.consulted)
        ELSE IF truthy_number(t.weight_per_unit) /\ t.source # None
        THEN Estimated(update_avg_weight(refs, ingredient_ref.id, t.weight_per_unit[1],
                                         t.source[1]),
                       Some(Weight(q_mul(count, t.weight_per_unit[1]), t.source[1])),
                       t.consulted)
        ELSE Estimated(refs, None, t.consulted)
  IN cached(usda(manual(recipe_text(extract_weight_from_text(original_text)))))

\* the lookup without the check for a cached weight
get_weight_for_count_ingredient_uncached(refs, ingredient_ref, count, original_text, world) ==
  lookup_weight_tiers(refs, ingredient_ref, count, original_text, world)

get_weight_for_count_ingredient(refs, ingredient_ref, count, original_text, world) ==
  IF truthy_number(ingredient_ref.avg_weight_grams)
  THEN Estimated(refs,
                 Some(Weight(q_mul(count, ingredient_ref.avg_weight_grams[1]),
                             IF ingredient_ref.weight_source # None
                                /\ ingredient_ref.weight_source[1] # ""
                             THEN ingredient_ref.weight_source[1] ELSE "cached")),
                 <<>>)
  ELSE lookup_weight_tiers(refs, ingredient_ref, count, original_text, world)

(* ----------------------- recipes and substitutions --------------------- *)

\* INSERT of a recipe; the serial id also records the insertion order
create_recipe(recs, title) == recs \cup {[id |-> Cardinality(recs) + 1, title |-> title]}

create_recipe_ingredient(reqs, recipe_id, ingredient_text, canonical_ingredient_id, quantity, unit) ==
  reqs \cup {[id |-> Cardinality(reqs) + 1, recipe_id |-> recipe_id,
              ingredient_text |-> ingredient_text,
              canonical_ingredient_id |-> canonical_ingredient_id,
              quantity |-> quantity, unit |-> unit]}

\* INSERT of a substitution rule; its key is a uuid, seq is the row's place in the table
create_substitution(subs, original_ingredient_id, substitute_ingredient_id, ratio, quality_score) ==
  subs \cup {[seq |-> Cardinality(subs) + 1,
              original_ingredient_id |-> original_ingredient_id,
              substitute_ingredient_id |-> substitute_ingredient_id,
              ratio |-> ratio, quality_score |-> quality_score]}

\* the rows of a set in stored order: by seq for substitution rules, by id otherwise
stored_rank(row) == IF "seq" \in DOMAIN row THEN row.seq ELSE row.id

RECURSIVE in_stored_order(_)
in_stored_order(rows) ==
  IF rows = {} THEN <<>>
  ELSE LET r == CHOOSE x \in rows : \A y \in rows : stored_rank(x) <= stored_rank(y)
       IN <<r>> \o in_stored_order(rows \ {r})

get_all_recipes(recs) == in_stored_order(recs)

get_recipe_ingredients(reqs, recipe_id) ==
  in_stored_order({q \in reqs : q.recipe_id = recipe_id})

get_substitutions_for_ingredient(subs, ingredient_id) ==
  in_stored_order({s \in subs : s.original_ingredient_id = ingredient_id})

(* ------------------------- inventory aggregation ----------------------- *)

\* Every item with the product it refers to, in the order the query returned the items.
get_all_items_with_products(item_order, prods) ==
  [i \in 1..Len(item_order) |->
     LET found == {p \in prods : p.id = item_order[i].product_reference_id}
     IN [item |-> item_order[i], product |-> IF found = {} THEN None ELSE Some(One(found))]]

\* the orders in which a query without ORDER BY may return the rows of a set
orderings(rows) ==
  {seq \in [1..Cardinality(rows) -> rows] : \A r \in rows : \E i \in DOMAIN seq : seq[i] = r}

value_or(x, default) == IF x = None \/ x[1] = <<>> THEN default ELSE x[1]

\* the inventory map after one contribution, added to the line of its ingredient
\* whatever the line's base unit
accumulate_any_unit(inventory_map, ingredient, conversion, reference) ==
  LET added(existing) ==
        IF existing # {}
        THEN (inventory_map \ existing)
               \cup {[One(existing) EXCEPT
                        !.total_quantity = q_add(@, conversion.quantity),
                        !.product_references = Append(@, reference)]}
        ELSE inventory_map
               \cup {[ingredient_id |-> ingredient.id,
                      ingredient_name |-> ingredient.name,
                      total_quantity |-> conversion.quantity,
                      base_unit |-> conversion.base_unit,
                      product_references |-> <<reference>>]}
  IN added({l \in inventory_map : l.ingredient_id = ingredient.id})

\* the inventory map after one contribution of aggregate_inventory_by_ingredient: added
\* to the ingredient's line when the base units agree, dropped when they differ, a new
\* line when the ingredient has none
accumulate(inventory_map, ingredient, conversion, reference) ==
  LET added(existing) ==
        IF existing # {}
        THEN IF One(existing).base_unit = conversion.base_unit
             THEN (inventory_map \ existing)
                    \cup {[One(existing) EXCEPT
                             !.total_quantity = q_add(@, conversion.quantity),
                             !.product_references = Append(@, reference)]}
             ELSE inventory_map
        ELSE inventory_map
               \cup {[ingredient_id |-> ingredient.id,
                      ingredient_name |-> ingredient.name,
                      total_quantity |-> conversion.quantity,
                      base_unit |-> conversion.base_unit,
                      product_references |-> <<reference>>]}
  IN added({l \in inventory_map : l.ingredient_id = ingredient.id})

\* the loop of aggregate_inventory_by_ingredient from entry i on; the inventory map is
\* the set of its values, at most one per ingredient_id
RECURSIVE aggregate_from(_, _, _, _, _)
aggregate_from(refs, als, entries, i, inventory_map) ==
  IF i > Len(entries) THEN [raised |-> FALSE, inventory |-> inventory_map]
  ELSE
    LET skip == aggregate_from(refs, als, entries, i + 1, inventory_map)
        totalled(item, product, ingredient, total_qty, package_unit) ==
          aggregate_from(refs, als, entries, i + 1,
            accumulate(inventory_map, ingredient,
                       convert_to_base_unit(total_qty, package_unit, ingredient.name),
                       [product_name |-> product.name, quantity |-> total_qty,
                        unit |-> package_unit]))
        mapped(item, product, ingredient) ==
          IF ingredient = {} THEN skip
          ELSE totalled(item, product, One(ingredient),
                        q_mul(q_int(item.qty),
                              IF product.package_quantity = None
                                 \/ q_zero(product.package_quantity[1])
                              THEN q_int(1) ELSE product.package_quantity[1]),
                        value_or(product.package_unit, <<"u", "n", "i", "t">>))
        named(item, product, alias) ==
          IF Multiple(alias) THEN [raised |-> TRUE, inventory |-> inventory_map]
          ELSE IF alias = {} THEN skip
          ELSE mapped(item, product, get_ingredient_by_id(refs, One(alias).ingredient_id))
        entry(item, product) ==
          IF product = None \/ product[1].name = <<>> THEN skip
          ELSE named(item, product[1], get_alias_by_text(als, product[1].name))
    IN entry(entries[i].item, entries[i].product)

aggregate_inventory_by_ingredient(refs, als, prods, item_order) ==
  aggregate_from(refs, als, get_all_items_with_products(item_order, prods), 1, {})

(* ----------------------------- recipe matcher -------------------------- *)

in_inventory(inventory, ingredient_id) == \E l \in inventory : l.ingredient_id = ingredient_id
inventory_line(inventory, ingredient_id) == CHOOSE l \in inventory : l.ingredient_id = ingredient_id

\* the loop of find_substitution_for_ingredient from rule i on: [raised, ret]
RECURSIVE find_substitution_from(_, _, _, _, _)
find_substitution_from(refs, substitutions, ingredient_id, inventory, i) ==
  IF i > Len(substitutions) THEN [raised |-> FALSE, ret |-> None]
  ELSE
    LET next == find_substitution_from(refs, substitutions, ingredient_id, inventory, i + 1)
        suggestion(sub, substitute_ing, original_ing) ==
          IF substitute_ing # {} /\ original_ing # {}
          THEN [raised |-> FALSE,
                ret |-> Some([original_ingredient_id |-> ingredient_id,
                              original_ingredient_name |-> One(original_ing).name,
                              substitute_ingredient_id |-> sub.substitute_ingredient_id,
                              substitute_ingredient_name |-> One(substitute_ing).name,
                              ratio |-> sub.ratio, quality_score |-> sub.quality_score[1]])]
          ELSE next
        rule(sub) ==
          IF sub.quality_score = None THEN [raised |-> TRUE, ret |-> None]
          ELSE IF sub.quality_score[1] < 5 THEN next
          ELSE IF in_inventory(inventory, sub.substitute_ingredient_id)
          THEN suggestion(sub, get_ingredient_by_id(refs, sub.substitute_ingredient_id),
                          get_ingredient_by_id(refs, ingredient_id))
          ELSE next
    IN rule(substitutions[i])

\* the lookup with the rules taken newest first
find_substitution_for_ingredient_newest_first(refs, subs, ingredient_id, inventory) ==
  LET newest_first(rules) == [i \in 1..Len(rules) |-> rules[Len(rules) + 1 - i]]
  IN find_substitution_from(refs,
                            newest_first(get_substitutions_for_ingredient(subs, ingredient_id)),
                            ingredient_id, inventory, 1)

find_substitution_for_ingredient(refs, subs, ingredient_id, inventory) ==
  find_substitution_from(refs, get_substitutions_for_ingredient(subs, ingredient_id),
                         ingredient_id, inventory, 1)

IngredientAvailability(ingredient, required_quantity, available_quantity, unit, is_sufficient) ==
  [ingredient_id |-> ingredient.id, ingredient_name |-> ingredient.name,
   required_quantity |-> required_quantity, available_quantity |-> available_quantity,
   unit |-> unit, is_sufficient |-> is_sufficient]

\* a requirement whose ingredient has the inventory line inv_data, compared without
\* looking at the units
availability_in_stock_any_unit(ingredient, required_conversion, inv_data) ==
  IngredientAvailability(ingredient, required_conversion.quantity, inv_data.total_quantity,
                         required_conversion.base_unit,
                         q_ge(inv_data.total_quantity, required_conversion.quantity))

\* a requirement whose ingredient has the inventory line inv_data
availability_in_stock(ingredient, required_conversion, inv_data) ==
  IF inv_data.base_unit = required_conversion.base_unit
  THEN IngredientAvailability(ingredient, required_conversion.quantity,
                              inv_data.total_quantity, required_conversion.base_unit,
                              q_ge(inv_data.total_quantity, required_conversion.quantity))
  ELSE IngredientAvailability(ingredient, required_conversion.quantity, q_int(0),
                              required_conversion.base_unit, FALSE)

\* The loop of match_recipe_to_inventory from requirement i on.  acc carries the lists
\* and the counter of the function, and lookups, the ingredient ids for which
\* find_substitution_for_ingredient was called, in call order.
RECURSIVE match_from(_, _, _, _, _, _)
match_from(refs, subs, requirements, inventory, i, acc) ==
  IF i > Len(requirements) THEN acc
  ELSE
    LET stocked(ingredient, in_stock) ==
          match_from(refs, subs, requirements, inventory, i + 1,
            [acc EXCEPT
               !.ingredient_availability = Append(@, in_stock),
               !.available_count = IF in_stock.is_sufficient THEN @ + 1 ELSE @,
               !.missing_ingredients =
                  IF in_stock.is_sufficient THEN @ ELSE Append(@, ingredient.name)])
        absent(recipe_ing, ingredient, required_conversion, substitution) ==
          IF substitution.raised
          THEN [acc EXCEPT !.raised = TRUE,
                           !.lookups = Append(@, recipe_ing.canonical_ingredient_id)]
          ELSE match_from(refs, subs, requirements, inventory, i + 1,
                 [acc EXCEPT
                    !.lookups = Append(@, recipe_ing.canonical_ingredient_id),
                    !.suggested_substitutions =
                       IF substitution.ret # None THEN Append(@, substitution.ret[1]) ELSE @,
                    !.ingredient_availability =
                       Append(@, IngredientAvailability(ingredient,
                                                        required_conversion.quantity, q_int(0),
                                                        required_conversion.base_unit, FALSE)),
                    !.missing_ingredients = Append(@, ingredient.name)])
        converted(recipe_ing, ingredient, required_conversion) ==
          IF in_inventory(inventory, recipe_ing.canonical_ingredient_id)
          THEN stocked(ingredient,
                       availability_in_stock(ingredient, required_conversion,
                         inventory_line(inventory, recipe_ing.canonical_ingredient_id)))
          ELSE absent(recipe_ing, ingredient, required_conversion,
                      find_substitution_for_ingredient(refs, subs,
                                                       recipe_ing.canonical_ingredient_id,
                                                       inventory))
        \* a requirement whose quantity is NULL raises: TypeError where the quantity is
        \* multiplied or compared, else the validation of required_quantity: float
        known(recipe_ing, ingredient) ==
          IF recipe_ing.quantity = None THEN [acc EXCEPT !.raised = TRUE]
          ELSE converted(recipe_ing, ingredient,
                         convert_to_base_unit(recipe_ing.quantity, recipe_ing.unit,
                                              ingredient.name))
        requirement(recipe_ing, found) ==
          IF found = {}
          THEN match_from(refs, subs, requirements, inventory, i + 1, acc)
          ELSE known(recipe_ing, One(found))
    IN requirement(requirements[i],
                   get_ingredient_by_id(refs, requirements[i].canonical_ingredient_id))

\* available_count // total_ingredients * 100
availability_percent_floor_division(available_count, total_ingredients) ==
  IF total_ingredients > 0
  THEN q_int((available_count \div total_ingredients) * 100)
  ELSE q_int(0)

\* the percentage without the test for a recipe that has no requirement, taken as
\* fully available
availability_percent_full_when_empty(available_count, total_ingredients) ==
  IF total_ingredients > 0
  THEN q_mul(Rat(available_count, total_ingredients), q_int(100))
  ELSE q_int(100)

availability_percent_of(available_count, total_ingredients) ==
  IF total_ingredients > 0
  THEN q_mul(Rat(available_count, total_ingredients), q_int(100))
  ELSE q_int(0)

match_recipe_to_inventory(refs, reqs, subs, recipe, inventory) ==
  LET result(total_ingredients, acc, availability_percent) ==
        [raised |-> acc.raised,
         recipe_id |-> recipe.id, recipe_title |-> recipe.title,
         match_type |-> IF availability_percent = q_int(100) THEN "exact"
                        ELSE IF Len(acc.suggested_substitutions) > 0 THEN "with_substitutions"
                        ELSE "missing_ingredients",
         availability_percent |-> availability_percent,
         ingredient_availability |-> acc.ingredient_availability,
         missing_ingredients |-> acc.missing_ingredients,
         suggested_substitutions |-> acc.suggested_substitutions,
         total_ingredients |-> total_ingredients, available_count |-> acc.available_count,
         lookups |-> acc.lookups]
      matched(total_ingredients, acc) ==
        result(total_ingredients, acc,
               availability_percent_of(acc.available_count, total_ingredients))
      match(requirements) ==
        matched(Len(requirements),
                match_from(refs, subs, requirements, inventory, 1,
                           [ingredient_availability |-> <<>>, missing_ingredients |-> <<>>,
                            suggested_substitutions |-> <<>>, available_count |-> 0,
                            lookups |-> <<>>, raised |-> FALSE]))
  IN match(get_recipe_ingredients(reqs, recipe.id))

no_buckets ==
  [can_make_now |-> <<>>, missing_one |-> <<>>, missing_few |-> <<>>,
   with_substitutions |-> <<>>]

\* one round of the categorisation loop with every test tried, not only the first
\* that holds
categorize_every_test(buckets, match) ==
  LET missing_count == Len(match.missing_ingredients)
      exact(b) == IF match.availability_percent = q_int(100)
                  THEN [b EXCEPT !.can_make_now = Append(@, match)] ELSE b
      one(b) == IF missing_count = 1 THEN [b EXCEPT !.missing_one = Append(@, match)] ELSE b
      few(b) == IF 2 <= missing_count /\ missing_count <= 3
                THEN [b EXCEPT !.missing_few = Append(@, match)] ELSE b
      substituted(b) == IF Len(match.suggested_substitutions) > 0
                        THEN [b EXCEPT !.with_substitutions = Append(@, match)] ELSE b
  IN substituted(few(one(exact(buckets))))

\* one round of the categorisation loop with the substitution test tried before the
\* test for 2-3 missing ingredients
categorize_substitutions_first(buckets, match) ==
  LET missing_count == Len(match.missing_ingredients)
  IN IF match.availability_percent = q_int(100)
     THEN [buckets EXCEPT !.can_make_now = Append(@, match)]
     ELSE IF missing_count = 1
     THEN [buckets EXCEPT !.missing_one = Append(@, match)]
     ELSE IF Len(match.suggested_substitutions) > 0
     THEN [buckets EXCEPT !.with_substitutions = Append(@, match)]
     ELSE IF 2 <= missing_count /\ missing_count <= 3
     THEN [buckets EXCEPT !.missing_few = Append(@, match)]
     ELSE buckets

\* one round of the categorisation loop of match_all_recipes
categorize(buckets, match) ==
  LET missing_count == Len(match.missing_ingredients)
  IN IF match.availability_percent = q_int(100)
     THEN [buckets EXCEPT !.can_make_now = Append(@, match)]
     ELSE IF missing_count = 1
     THEN [buckets EXCEPT !.missing_one = Append(@, match)]
     ELSE IF 2 <= missing_count /\ missing_count <= 3
     THEN [buckets EXCEPT !.missing_few = Append(@, match)]
     ELSE IF Len(match.suggested_substitutions) > 0
     THEN [buckets EXCEPT !.with_substitutions = Append(@, match)]
     ELSE buckets

RECURSIVE categorize_from(_, _, _)
categorize_from(all_matches, i, buckets) ==
  IF i > Len(all_matches) THEN buckets
  ELSE categorize_from(all_matches, i + 1, categorize(buckets, all_matches[i]))

\* The response of match_all_recipes, or [raised |-> TRUE].  inventory is the map the
\* matches were computed against; it is not part of the response.
match_all_recipes(refs, als, prods, item_order, recs, reqs, subs) ==
  LET response(aggregated, recipes_list, all_matches, buckets) ==
        IF aggregated.raised \/ \E i \in 1..Len(all_matches) : all_matches[i].raised
        THEN [raised |-> TRUE]
        ELSE [raised |-> FALSE,
              inventory |-> aggregated.inventory,
              can_make_now |-> buckets.can_make_now,
              missing_one |-> buckets.missing_one,
              missing_few |-> buckets.missing_few,
              with_substitutions |-> buckets.with_substitutions,
              total_recipes_checked |-> Len(recipes_list)]
      categorized(aggregated, recipes_list, all_matches) ==
        response(aggregated, recipes_list, all_matches,
                 categorize_from(all_matches, 1, no_buckets))
      matched(aggregated, recipes_list) ==
        categorized(aggregated, recipes_list,
                    [i \in 1..Len(recipes_list) |->
                       match_recipe_to_inventory(refs, reqs, subs, recipes_list[i],
                                                 aggregated.inventory)])
  IN matched(aggregate_inventory_by_ingredient(refs, als, prods, item_order),
             get_all_recipes(recs))
(* -------------------------------- state -------------------------------- *)

\* No more than MaxCalls requests are served concurrently.
MaxCalls == 2

Init ==
  /\ ingredient_references = {}
  /\ ingredient_aliases = {}
  /\ product_references = {}
  /\ items = {}
  /\ recipes = {}
  /\ recipe_ingredients = {}
  /\ ingredient_substitutions = {}
  /\ last = [op |-> "init"]
  /\ in_flight = [call \in 1..MaxCalls |-> [pc |-> "idle"]]

ItemsBounded(its, max_qty) == \A it \in its : it.qty <= max_qty

(* ------------------------------- actions ------------------------------- *)

\* find_or_create_ingredient(db, x)
Resolve(x) ==
  LET o == find_or_create_ingredient(ingredient_references, ingredient_aliases, x)
  IN /\ ingredient_references' = o.refs
     /\ ingredient_aliases' = o.als
     /\ last' = [op |-> "resolve", arg |-> x, ret |-> o.ret, tier |-> o.tier, raised |-> o.raised]
     /\ UNCHANGED <<in_flight, product_references, items, recipe_vars>>

\* POST /seed-aliases
SeedAliases ==
  LET o == seed_ingredient_aliases(ingredient_references, ingredient_aliases)
  IN /\ ingredient_references' = o.refs
     /\ ingredient_aliases' = o.als
     /\ last' = [op |-> "seed", created_ingredients |-> o.created_ingredients,
                 created_aliases |-> o.created_aliases, skipped |-> o.skipped,
                 raised |-> o.raised]
     /\ UNCHANGED <<in_flight, product_references, items, recipe_vars>>

\* POST /add-fresh
AddFreshItem(name, weight_grams, location) ==
  LET found == get_product_by_name(product_references, name, "plu")
      prods1 == create_product(product_references, name, None, "plu", Some(weight_grams),
                               Some(s_unit_g))
      pid == IF found = {} THEN Cardinality(product_references) + 1 ELSE One(found).id
      maps == IF found = {}
              THEN auto_map_product_to_ingredient(ingredient_references, ingredient_aliases, name)
              ELSE {[raised |-> FALSE, als |-> ingredient_aliases]}
  IN IF Multiple(found)
     THEN /\ last' = [op |-> "add_fresh", arg |-> name, raised |-> TRUE]
          /\ UNCHANGED <<in_flight, ingredient_references, ingredient_aliases, product_references, items,
                         recipe_vars>>
     ELSE \E m \in maps :
            /\ product_references' = IF found = {} THEN prods1 ELSE product_references
            /\ ingredient_aliases' = m.als
            /\ items' = IF m.raised THEN items ELSE upsert_item(items, pid, location)
            /\ last' = [op |-> "add_fresh", arg |-> name, raised |-> m.raised]
            /\ UNCHANGED <<in_flight, ingredient_references, recipe_vars>>

\* POST /scan; product_info is what lookup_barcode answered (None, or a record)
ScanProduct(barcode, location, product_info) ==
  LET found == get_product_by_barcode(product_references, barcode)
      info == product_info[1]
      complete == info.package_quantity # None /\ info.package_unit # None
      prods1 == create_product(product_references, info.name[1], Some(barcode), "upc",
                               info.package_quantity, info.package_unit)
      pid == IF found = {} THEN Cardinality(product_references) + 1 ELSE One(found).id
      maps == IF found = {} /\ complete
              THEN auto_map_product_to_ingredient(ingredient_references, ingredient_aliases,
                                                  info.name[1])
              ELSE {[raised |-> FALSE, als |-> ingredient_aliases]}
  IN IF Multiple(found) \/ (found = {} /\ (product_info = None \/ info.name = None))
     THEN /\ last' = [op |-> "scan", arg |-> barcode, raised |-> TRUE]
          /\ UNCHANGED <<in_flight, ingredient_references, ingredient_aliases, product_references, items,
                         recipe_vars>>
     ELSE \E m \in maps :
            /\ product_references' = IF found = {} THEN prods1 ELSE product_references
            /\ ingredient_aliases' = m.als
            /\ items' = IF m.raised THEN items ELSE upsert_item(items, pid, location)
            /\ last' = [op |-> "scan", arg |-> barcode, raised |-> m.raised]
            /\ UNCHANGED <<in_flight, ingredient_references, recipe_vars>>

\* POST /map-products-to-ingredients
MapAllProducts ==
  \E o \in map_all_products_to_ingredients(ingredient_references, ingredient_aliases,
                                           product_references) :
    /\ ingredient_aliases' = o.als
    /\ last' = [op |-> "map_all", mapped_count |-> o.mapped_count,
                skipped_count |-> o.skipped_count, raised |-> o.raised]
    /\ UNCHANGED <<in_flight, ingredient_references, product_references, items, recipe_vars>>

(* ------------------------- resolver specification ---------------------- *)

ResolveNames ==
  {s_green_onion, s_scallions, s_egg, s_eggs, s_eggplant, s_eggplants, s_bagel, s_bagels}

FreshNames == {s_egg}

s_unit_unit == <<"u", "n", "i", "t">>

\* what the barcode lookup may answer for the one barcode scanned
BarcodeInfos ==
  { Some([name |-> Some(s_Fresh_Bagels), package_quantity |-> Some(q_int(6)),
          package_unit |-> Some(s_unit_unit)]),
    Some([name |-> Some(s_Fresh_Bagels), package_quantity |-> None, package_unit |-> None]) }

\* No item is counted beyond MaxQty.
MaxQty == 1

NextResolver ==
  \/ \E x \in ResolveNames : Resolve(x)
  \/ SeedAliases
  \/ \E n \in FreshNames : AddFreshItem(n, q_int(50), "Fridge") /\ ItemsBounded(items', MaxQty)
  \/ \E info \in BarcodeInfos : ScanProduct("b1", "Fridge", info) /\ ItemsBounded(items', MaxQty)
  \/ MapAllProducts

SpecResolver == Init /\ [][NextResolver]_vars
(* --------------------------- recipe import ----------------------------- *)

\* The loop of create_recipe_from_url from parsed ingredient i on.  st carries the
\* stores; every insert is committed when it is made, so an exception leaves the rows
\* written before it.
RECURSIVE import_ingredients_from(_, _, _, _, _)
import_ingredients_from(st, recipe_id, parsed_ingredients, i, world) ==
  IF i > Len(parsed_ingredients) THEN st
  ELSE
    LET failed(resolved) ==
          [st EXCEPT !.refs = resolved.refs, !.als = resolved.als, !.raised = TRUE]
        linked(parsed, resolved, ingredient_ref, refs, quantity, unit) ==
          import_ingredients_from(
            [st EXCEPT !.refs = refs, !.als = resolved.als,
                       !.reqs = create_recipe_ingredient(st.reqs, recipe_id, parsed.original,
                                                         ingredient_ref.id, quantity, unit)],
            recipe_id, parsed_ingredients, i + 1, world)
        weighed(parsed, resolved, ingredient_ref, weight_data) ==
          IF weight_data.raised THEN failed(resolved)
          ELSE IF weight_data.ret # None
          THEN linked(parsed, resolved, ingredient_ref, weight_data.refs,
                      weight_data.ret[1].quantity, weight_data.ret[1].unit)
          ELSE linked(parsed, resolved, ingredient_ref, weight_data.refs,
                      parsed.amount, parsed.unit)
        measured(parsed, resolved, ingredient_ref) ==
          IF truthy_number(parsed.metric_amount) /\ parsed.metric_unit # None
               /\ parsed.metric_unit[1] # <<>>
          THEN linked(parsed, resolved, ingredient_ref, resolved.refs,
                      parsed.metric_amount[1], parsed.metric_unit[1])
          ELSE IF parsed.unit = <<>> \/ strip(parsed.unit) = <<>>
          THEN weighed(parsed, resolved, ingredient_ref,
                       get_weight_for_count_ingredient(resolved.refs, ingredient_ref,
                                                       parsed.amount, parsed.original, world))
          ELSE linked(parsed, resolved, ingredient_ref, resolved.refs,
                      parsed.amount, parsed.unit)
        found(parsed, resolved) ==
          IF resolved.raised \/ resolved.ret = None THEN failed(resolved)
          ELSE measured(parsed, resolved,
                        One(get_ingredient_by_id(resolved.refs, resolved.ret[1])))
        ingredient(parsed) ==
          found(parsed, find_or_create_ingredient(st.refs, st.als,
                                                  normalize_ingredient_text(parsed.name)))
    IN ingredient(parsed_ingredients[i])

\* recipe_data is what parse_recipe_from_url answered (None, or the page's title and
\* the ingredients as parse_ingredients_batch parsed them); world is the state of the
\* weight provider during the request
create_recipe_from_url(refs, als, recs, reqs, recipe_data, world) ==
  IF recipe_data = None
  THEN [refs |-> refs, als |-> als, recs |-> recs, reqs |-> reqs, raised |-> TRUE]
  ELSE import_ingredients_from(
         [refs |-> refs, als |-> als, recs |-> create_recipe(recs, recipe_data[1].title),
          reqs |-> reqs, raised |-> FALSE],
         Cardinality(recs) + 1, recipe_data[1].ingredients, 1, world)

(* --------------------------- further actions --------------------------- *)

\* POST /recipes/from-url
ImportRecipe(recipe_data, world) ==
  LET served(o) ==
        /\ ingredient_references' = o.refs
        /\ ingredient_aliases' = o.als
        /\ recipes' = o.recs
        /\ recipe_ingredients' = o.reqs
        /\ last' = [op |-> "import", raised |-> o.raised]
        /\ UNCHANGED <<in_flight, product_references, items, ingredient_substitutions>>
  IN served(create_recipe_from_url(ingredient_references, ingredient_aliases, recipes,
                                   recipe_ingredients, recipe_data, world))

\* estimateWeight for a stored identity
EstimateWeight(ingredient_ref, count, original_text, world) ==
  LET served(o) ==
        /\ ingredient_references' = o.refs
        /\ last' = [op |-> "estimate", arg |-> ingredient_ref.id, count |-> count,
                    before |-> ingredient_ref, ret |-> o.ret, consulted |-> o.consulted,
                    raised |-> o.raised]
        /\ UNCHANGED <<in_flight, ingredient_aliases, product_references, items, recipe_vars>>
  IN /\ ingredient_ref \in ingredient_references
     /\ served(get_weight_for_count_ingredient(ingredient_references, ingredient_ref, count,
                                               original_text, world))

\* a substitution rule between two stored identities, given by their names
CreateSubstitution(original_name, substitute_name, ratio, quality_score) ==
  LET original == get_ingredient_by_name(ingredient_references, original_name)
      substitute == get_ingredient_by_name(ingredient_references, substitute_name)
  IN /\ original # {} /\ substitute # {}
     /\ ingredient_substitutions' =
          create_substitution(ingredient_substitutions, One(original).id, One(substitute).id,
                              ratio, quality_score)
     /\ last' = [op |-> "substitution"]
     /\ UNCHANGED <<in_flight, ingredient_references, ingredient_aliases, product_references, items,
                    recipes, recipe_ingredients>>

\* a requirement row stored for a recipe and an identity given by name; quantity is
\* nullable in the table
CreateRecipeIngredient(recipe_id, ingredient_name, quantity, unit) ==
  LET ingredient == get_ingredient_by_name(ingredient_references, ingredient_name)
  IN /\ \E r \in recipes : r.id = recipe_id
     /\ ingredient # {}
     /\ recipe_ingredients' =
          create_recipe_ingredient(recipe_ingredients, recipe_id, <<>>, One(ingredient).id,
                                   quantity, unit)
     /\ last' = [op |-> "requirement"]
     /\ UNCHANGED <<in_flight, ingredient_references, ingredient_aliases, product_references, items,
                    recipes, ingredient_substitutions>>

\* normalize_ingredient_text applied to a text
NormalizeText(ingredient_text) ==
  /\ last' = [op |-> "normalize", arg |-> ingredient_text,
              ret |-> normalize_ingredient_text(ingredient_text)]
  /\ UNCHANGED <<in_flight, ingredient_references, ingredient_aliases, product_references,
                 items, recipe_vars>>

\* convert_to_base_unit applied to a quantity, a unit text and a name (<<>>: no name)
ConvertToBaseUnit(quantity, unit, ingredient_name) ==
  /\ last' = [op |-> "convert", quantity |-> quantity, unit |-> unit,
              ingredient_name |-> ingredient_name,
              ret |-> convert_to_base_unit(quantity, unit, ingredient_name)]
  /\ UNCHANGED <<in_flight, ingredient_references, ingredient_aliases, product_references,
                 items, recipe_vars>>

\* standardize_unit applied to a unit text
StandardizeUnit(unit) ==
  /\ last' = [op |-> "standardize", unit |-> unit, ret |-> standardize_unit(unit)]
  /\ UNCHANGED <<in_flight, ingredient_references, ingredient_aliases, product_references,
                 items, recipe_vars>>

\* can_convert_units applied to two unit texts
CanConvertUnits(unit_a, unit_b) ==
  /\ last' = [op |-> "can_convert", unit_a |-> unit_a, unit_b |-> unit_b,
              ret |-> can_convert_units(unit_a, unit_b)]
  /\ UNCHANGED <<in_flight, ingredient_references, ingredient_aliases, product_references,
                 items, recipe_vars>>

\* POST /move
MoveItem(payload) ==
  LET served(o) ==
        /\ items' = o.items
        /\ last' = [op |-> "move", payload |-> payload, ret |-> o.ret,
                    not_found |-> o.not_found]
  IN /\ served(move_item_between_locations(items, payload))
     /\ UNCHANGED <<in_flight, ingredient_references, ingredient_aliases, product_references,
                    recipe_vars>>

\* A request served concurrently with others: it is suspended once, where it awaits
\* the database after its first reads, and the other requests may run in between.

\* find_or_create_ingredient up to the alias lookup: a hit returns, a miss suspends
BeginResolve(call, normalized_name) ==
  LET returned(o) ==
        in_flight' = [in_flight EXCEPT ![call] =
                        [pc |-> "done", op |-> "resolve", arg |-> normalized_name,
                         missed |-> FALSE, ret |-> o.ret, raised |-> o.raised]]
  IN /\ in_flight[call].pc = "idle"
     /\ IF /\ get_ingredient_by_name(ingredient_references, normalized_name) = {}
           /\ get_ingredient_by_normalized_name(ingredient_references, normalized_name) = {}
           /\ get_alias_by_text(ingredient_aliases, normalized_name) = {}
        THEN in_flight' = [in_flight EXCEPT ![call] =
                             [pc |-> "missed", op |-> "resolve", arg |-> normalized_name]]
        ELSE returned(find_or_create_ingredient(ingredient_references, ingredient_aliases,
                                                normalized_name))
     /\ UNCHANGED <<ingredient_references, ingredient_aliases, product_references, items,
                    recipe_vars, last>>

\* find_or_create_ingredient from the seed lookup on, against the stores as they are now
FinishResolve(call) ==
  LET served(o) ==
        /\ ingredient_references' = o.refs
        /\ ingredient_aliases' = o.als
        /\ in_flight' = [in_flight EXCEPT ![call] =
                           [pc |-> "done", op |-> "resolve", arg |-> in_flight[call].arg,
                            missed |-> TRUE, ret |-> o.ret, raised |-> o.raised]]
        /\ UNCHANGED <<product_references, items, recipe_vars, last>>
  IN /\ in_flight[call].pc = "missed"
     /\ served(resolve_after_alias_lookup(ingredient_references, ingredient_aliases,
                                          in_flight[call].arg))

\* get_weight_for_count_ingredient is handed the identity as the request loaded it
BeginEstimate(call, ingredient_ref, count, original_text) ==
  /\ in_flight[call].pc = "idle"
  /\ ingredient_ref \in ingredient_references
  /\ in_flight' = [in_flight EXCEPT ![call] =
                     [pc |-> "loaded", op |-> "estimate", ingredient_ref |-> ingredient_ref,
                      count |-> count, original_text |-> original_text]]
  /\ UNCHANGED <<ingredient_references, ingredient_aliases, product_references, items,
                 recipe_vars, last>>

\* the cache test on the loaded identity, the tiers, and update_avg_weight on the store
FinishEstimate(call, world) ==
  LET served(o) ==
        /\ ingredient_references' = o.refs
        /\ in_flight' = [in_flight EXCEPT ![call] =
                           [pc |-> "done", op |-> "estimate",
                            ingredient_ref |-> in_flight[call].ingredient_ref,
                            ret |-> o.ret, raised |-> o.raised,
                            stored |-> get_ingredient_by_id(o.refs,
                                                            in_flight[call].ingredient_ref.id)]]
        /\ UNCHANGED <<ingredient_aliases, product_references, items, recipe_vars, last>>
  IN /\ in_flight[call].pc = "loaded"
     /\ served(get_weight_for_count_ingredient(ingredient_references,
                                               in_flight[call].ingredient_ref,
                                               in_flight[call].count,
                                               in_flight[call].original_text, world))

\* the match request writing each inventory line's total onto its identity as a cached
\* weight
MatchAllRecipesCachingWeights ==
  \E item_order \in orderings(items) :
    LET cached(ret) ==
          {IF ~ret.raised /\ in_inventory(ret.inventory, r.id)
           THEN [r EXCEPT !.avg_weight_grams =
                            Some(inventory_line(ret.inventory, r.id).total_quantity),
                          !.weight_source = Some("inventory")]
           ELSE r : r \in ingredient_references}
        served(ret) ==
          /\ last' = [op |-> "match", item_order |-> item_order, ret |-> ret]
          /\ ingredient_references' = cached(ret)
    IN /\ served(match_all_recipes(ingredient_references, ingredient_aliases,
                                   product_references, item_order, recipes,
                                   recipe_ingredients, ingredient_substitutions))
       /\ UNCHANGED <<in_flight, ingredient_aliases, product_references, items, recipe_vars>>

\* GET /recipes/match; the items come back in any order
MatchAllRecipes ==
  \E item_order \in orderings(items) :
    /\ last' = [op |-> "match", item_order |-> item_order,
                ret |-> match_all_recipes(ingredient_references, ingredient_aliases,
                                          product_references, item_order, recipes,
                                          recipe_ingredients, ingredient_substitutions)]
    /\ UNCHANGED <<in_flight, ingredient_references, ingredient_aliases, product_references, items,
                   recipe_vars>>

(* -------------------------- weight specification ----------------------- *)

WeightNames == {<<"e", "g", "g">>, <<"b", "a", "g", "e", "l">>}

WeightCounts == {q_int(0), q_int(1), q_int(2)}

\* a text without a weight, one with a weight hint, one whose hint weighs nothing and
\* one in which the pattern matches a lone dot
WeightTexts ==
  { <<"2", " ", "l", "a", "r", "g", "e", " ", "e", "g", "g", "s">>,
    <<"2", " ", "e", "g", "g", "s", " ", "(", "a", "b", "o", "u", "t", " ", "4", " ", "o", "z", ")">>,
    <<"2", " ", "e", "g", "g", "s", " ", "(", "0", " ", "g", " ", "f", "a", "t", ")">>,
    <<"2", " ", "e", "g", "g", "s", ",", " ", "a", "p", "p", "r", "o", "x", ".", " ", "g", " ", "1", "0", "0">> }

World(api_key, search, detail) == [api_key |-> api_key, search |-> search, detail |-> detail]

\* the provider without a key
NoProvider ==
  World(FALSE, [outcome |-> "timeout", status_code |-> 0, body |-> <<>>],
               [outcome |-> "timeout", status_code |-> 0, body |-> <<>>])

\* no key; a search that times out; a search answered 500; a food without fdcId; a
\* detail answered 404; a portion without gramWeight; a "large" portion of amount 2
\* before a "Medium" one of amount 1; a single portion of amount 2 without modifier
ProviderWorlds ==
  LET Response(outcome, status_code, body) ==
        [outcome |-> outcome, status_code |-> status_code, body |-> body]
      Portion(amount, gramWeight, modifier) ==
        [amount |-> amount, gramWeight |-> gramWeight, modifier |-> modifier,
         portionDescription |-> None]
      Food(fdcId) == [fdcId |-> fdcId]
      NoAnswer == Response("timeout", 0, <<>>)
      PortionsWorld(portions) ==
        World(TRUE, Response("response", 200, <<Food(Some(1))>>),
                    Response("response", 200, portions))
  IN { NoProvider,
       World(TRUE, NoAnswer, NoAnswer),
       World(TRUE, Response("response", 500, <<>>), NoAnswer),
       World(TRUE, Response("response", 200, <<Food(None)>>), NoAnswer),
       World(TRUE, Response("response", 200, <<Food(Some(1))>>), Response("response", 404, <<>>)),
       PortionsWorld(<<Portion(Some(q_int(1)), None, Some(<<"m", "e", "d", "i", "u", "m">>))>>),
       PortionsWorld(<<Portion(Some(q_int(2)), Some(q_int(100)), Some(<<"l", "a", "r", "g", "e">>)),
                       Portion(Some(q_int(1)), Some(q_int(61)), Some(<<"M", "e", "d", "i", "u", "m">>))>>),
       PortionsWorld(<<Portion(Some(q_int(2)), Some(q_int(100)), None)>>) }

NextWeight ==
  \/ \E x \in WeightNames : Resolve(x)
  \/ \E r \in ingredient_references, count \in WeightCounts, text \in WeightTexts,
        world \in ProviderWorlds :
       EstimateWeight(r, count, text, world)

SpecWeight == Init /\ [][NextWeight]_vars

(* -------------------------- matcher specification ---------------------- *)

Parsed(name, amount, unit, original) ==
  [name |-> name, amount |-> amount, unit |-> unit, original |-> original,
   metric_amount |-> None, metric_unit |-> None]

\* what the scraper and the ingredient parser answer for the pages imported
RecipePages ==
  { None,
    Some([title |-> <<"c", "a", "k", "e">>,
          ingredients |-> << Parsed(<<"e", "g", "g", "s">>, q_int(2), <<>>, <<"2", " ", "l", "a", "r", "g", "e", " ", "e", "g", "g", "s">>),
                             Parsed(<<"f", "l", "o", "u", "r">>, q_int(500), <<"g">>, <<"5", "0", "0", " ", "g", " ", "f", "l", "o", "u", "r">>),
                             Parsed(<<"m", "i", "l", "k">>, q_int(1), <<"c", "u", "p">>, <<"1", " ", "c", "u", "p", " ", "m", "i", "l", "k">>) >>]),
    Some([title |-> <<"o", "m", "e", "l", "e", "t", "t", "e">>,
          ingredients |-> << Parsed(<<"e", "g", "g", "s">>, q_int(2), <<>>, <<"2", " ", "e", "g", "g", "s">>) >>]),
    Some([title |-> <<"b", "r", "u", "n", "c", "h">>,
          ingredients |-> << Parsed(<<"e", "g", "g", "s">>, q_int(3), <<>>, <<"3", " ", "e", "g", "g", "s">>),
                             Parsed(<<"b", "a", "g", "e", "l">>, q_int(1), <<>>, <<"1", " ", "p", "l", "a", "i", "n", " ", "b", "a", "g", "e", "l">>),
                             Parsed(<<"b", "a", "g", "e", "l">>, q_int(1), <<>>, <<"1", " ", "s", "e", "s", "a", "m", "e", " ", "b", "a", "g", "e", "l">>),
                             Parsed(<<"b", "a", "g", "e", "l">>, q_int(1), <<>>, <<"1", " ", "p", "o", "p", "p", "y", " ", "b", "a", "g", "e", "l">>),
                             Parsed(<<"b", "a", "g", "e", "l">>, q_int(1), <<>>, <<"1", " ", "o", "n", "i", "o", "n", " ", "b", "a", "g", "e", "l">>) >>]),
    Some([title |-> <<"w", "a", "t", "e", "r">>, ingredients |-> <<>>]) }

\* fresh items added by name with a weight in grams
FreshStock ==
  { [name |-> <<"e", "g", "g">>, weight_grams |-> q_int(100)],
    [name |-> <<"f", "l", "o", "u", "r">>, weight_grams |-> q_int(1000)] }

\* what the barcode lookup answers for the barcode scanned
ScannedStock ==
  { Some([name |-> Some(<<"L", "a", "r", "g", "e", " ", "E", "g", "g", "s">>), package_quantity |-> Some(q_int(12)),
          package_unit |-> Some(<<"u", "n", "i", "t">>)]) }

SubstitutionRules ==
  { [original |-> <<"m", "i", "l", "k">>, substitute |-> <<"e", "g", "g">>, quality_score |-> Some(7)],
    [original |-> <<"m", "i", "l", "k">>, substitute |-> <<"f", "l", "o", "u", "r">>, quality_score |-> Some(3)],
    [original |-> <<"b", "a", "g", "e", "l">>, substitute |-> <<"e", "g", "g">>, quality_score |-> Some(7)] }

\* No more than MaxRecipes recipes are imported and MaxSubstitutions rules stored.
MaxRecipes == 2
MaxSubstitutions == 1

NextMatch ==
  \/ \E page \in RecipePages :
       ImportRecipe(page, NoProvider) /\ Cardinality(recipes') <= MaxRecipes
  \/ \E f \in FreshStock :
       AddFreshItem(f.name, f.weight_grams, "Fridge") /\ ItemsBounded(items', MaxQty)
  \/ \E info \in ScannedStock :
       ScanProduct("b2", "Fridge", info) /\ ItemsBounded(items', MaxQty)
  \/ MapAllProducts
  \/ \E rule \in SubstitutionRules :
       /\ CreateSubstitution(rule.original, rule.substitute, q_int(1), rule.quality_score)
       /\ Cardinality(ingredient_substitutions') <= MaxSubstitutions
  \/ MatchAllRecipes

SpecMatch == Init /\ [][NextMatch]_vars


(* --------------------- substitution rules in stored order --------------------- *)

\* rules offered for storing: two directions, and quality scores on both sides of the
\* threshold of find_substitution_for_ingredient
RuleBook ==
  { [original |-> <<"m", "i", "l", "k">>, substitute |-> <<"f", "l", "o", "u", "r">>, quality_score |-> Some(4)],
    [original |-> <<"m", "i", "l", "k">>, substitute |-> <<"e", "g", "g">>, quality_score |-> Some(7)],
    [original |-> <<"m", "i", "l", "k">>, substitute |-> <<"f", "l", "o", "u", "r">>, quality_score |-> Some(5)],
    [original |-> <<"e", "g", "g">>, substitute |-> <<"m", "i", "l", "k">>, quality_score |-> Some(9)] }

\* No more than MaxRules rules are stored, for the requirements of MaxRuleRecipes recipe.
MaxRules == 3
MaxRuleRecipes == 1

NextSubstitution ==
  \/ \E page \in {p \in RecipePages : p # None /\ Len(p[1].ingredients) = 3} :
       ImportRecipe(page, NoProvider) /\ Cardinality(recipes') <= MaxRuleRecipes
  \/ \E f \in FreshStock :
       AddFreshItem(f.name, f.weight_grams, "Fridge") /\ ItemsBounded(items', MaxQty)
  \/ \E rule \in RuleBook :
       /\ CreateSubstitution(rule.original, rule.substitute, q_int(1), rule.quality_score)
       /\ Cardinality(ingredient_substitutions') <= MaxRules
  \/ MatchAllRecipes

SpecSubstitution == Init /\ [][NextSubstitution]_vars

(* ------------------- stock of one ingredient in several units ------------------- *)

\* No more than MaxStock items are kept.
MaxStock == 4

NextAggregate ==
  \/ \E x \in FreshNames : Resolve(x)
  \/ \E f \in FreshStock, location \in {"Fridge", "Freezer"} :
       /\ AddFreshItem(f.name, f.weight_grams, location)
       /\ ItemsBounded(items', MaxQty) /\ Cardinality(items') <= MaxStock
  \/ \E info \in ScannedStock :
       /\ ScanProduct("b2", "Fridge", info)
       /\ ItemsBounded(items', MaxQty) /\ Cardinality(items') <= MaxStock
  \/ MapAllProducts
  \/ MatchAllRecipes

SpecAggregate == Init /\ [][NextAggregate]_vars

(* ---------------------- requirement rows stored directly ---------------------- *)

\* No more than MaxDirectRows requirement rows are stored outside an import.
MaxDirectRows == 1

NextRequirement ==
  \/ \E page \in RecipePages :
       ImportRecipe(page, NoProvider) /\ Cardinality(recipes') <= MaxRecipes
  \/ \E f \in FreshStock :
       AddFreshItem(f.name, f.weight_grams, "Fridge") /\ ItemsBounded(items', MaxQty)
  \/ \E recipe_id \in 1..MaxRecipes, quantity \in {None, q_int(1)} :
       /\ CreateRecipeIngredient(recipe_id, <<"e", "g", "g">>, quantity, <<>>)
       /\ Cardinality({q \in recipe_ingredients' : q.ingredient_text = <<>>}) <= MaxDirectRows
  \/ MatchAllRecipes

SpecRequirement == Init /\ [][NextRequirement]_vars

(* ------------------------------ concurrent requests ----------------------------- *)

\* a manual-weight name, its plural, and a name unknown to every table
RaceNames == {<<"e", "g", "g", "s">>, <<"b", "a", "g", "e", "l">>, <<"e", "g", "g">>}

RaceTexts == {<<"2", " ", "l", "a", "r", "g", "e", " ", "e", "g", "g", "s">>, <<"2", " ", "e", "g", "g", "s", " ", "(", "a", "b", "o", "u", "t", " ", "4", " ", "o", "z", ")">>}

NextRace ==
  \/ \E call \in 1..MaxCalls, x \in RaceNames : BeginResolve(call, x)
  \/ \E call \in 1..MaxCalls : FinishResolve(call)
  \/ \E call \in 1..MaxCalls, ref \in ingredient_references, text \in RaceTexts :
       BeginEstimate(call, ref, q_int(2), text)
  \/ \E call \in 1..MaxCalls : FinishEstimate(call, NoProvider)
  \/ \E x \in RaceNames : Resolve(x)
  \/ AddFreshItem(<<"e", "g", "g", "s">>, q_int(50), "Fridge") /\ ItemsBounded(items', MaxQty)
  \/ MatchAllRecipes

SpecRace == Init /\ [][NextRace]_vars

(* ------------------------------- texts to normalize ----------------------------- *)

\* words of an ingredient line: a modifier and a number that are dropped, the words of
\* a leading phrase, and a name
NormalizeWords == {<<"F", "r", "e", "s", "h">>, <<"2">>, <<"j", "u", "i", "c", "e">>, <<"o", "f">>, <<"l", "e", "m", "o", "n">>}

\* A text has no more than MaxWords words.
MaxWords == 4

NextNormalize ==
  \E n \in 1..MaxWords : \E words \in [1..n -> NormalizeWords] : NormalizeText(join(words))

SpecNormalize == Init /\ [][NextNormalize]_vars

(* -------------------------------- units to convert ------------------------------ *)

\* unit texts: none, blank, weight, volume and discrete spellings, and two that
\* standardize_unit does not know
ConvertUnits ==
  { <<>>, <<" ">>, <<"g">>, <<"K", "G">>, <<"o", "u", "n", "c", "e", "s">>, <<"C", "u", "p", "s">>, <<"t", "b", "s", "p">>, <<"f", "l", " ", "o", "z">>, <<"d", "o", "z", "e", "n">>,
    <<"p", "i", "e", "c", "e", "s">>, <<"p", "i", "n", "c", "h">>, <<"s", "t", "i", "c", "k">> }

\* names: none, blank, in the dry table, in the liquid table, with a liquid keyword,
\* and with none of these
ConvertNames == { <<>>, <<" ">>, <<"f", "l", "o", "u", "r">>, <<"M", "i", "l", "k">>, <<"l", "e", "m", "o", "n", " ", "j", "u", "i", "c", "e">>, <<"e", "g", "g">> }

ConvertQuantities == { q_int(0), q_int(2), Rat(1, 2) }

NextConvert ==
  \E quantity \in ConvertQuantities, unit \in ConvertUnits, name \in ConvertNames :
    ConvertToBaseUnit(quantity, unit, name)

SpecConvert == Init /\ [][NextConvert]_vars

(* ------------------------- unit texts to standardize ---------------------------- *)

\* every listed spelling, and the unit texts of ConvertUnits with capitals, blanks
\* around them and spellings that are not listed
NextUnits ==
  \/ \E unit \in ConvertUnits \cup { <<" ", "P", "i", "n", "c", "h", " ">>, <<"T">>, <<" ", "L", "B", "S">> }
              \cup UNION { unit_spellings[i].spellings : i \in 1..Len(unit_spellings) } :
        StandardizeUnit(unit)
  \/ \E unit_a, unit_b \in ConvertUnits \cup { <<" ", "P", "i", "n", "c", "h", " ">>, <<"T">>, <<" ", "L", "B", "S">> } :
        CanConvertUnits(unit_a, unit_b)

SpecUnits == Init /\ [][NextUnits]_vars

(* ------------------------------ plurals to resolve ------------------------------ *)

\* names resolved one after another: singulars and their plurals under each rule, a
\* plural in -oes with both its singulars, one of them in the manual weight table
PluralNames ==
  { <<"m", "a", "n", "g", "o", "e">>, <<"m", "a", "n", "g", "o", "e", "s">>, <<"r", "e", "d", " ", "p", "o", "t", "a", "t", "o">>, <<"r", "e", "d", " ", "p", "o", "t", "a", "t", "o", "e">>, <<"r", "e", "d", " ", "p", "o", "t", "a", "t", "o", "e", "s">>,
    <<"b", "a", "g", "e", "l">>, <<"b", "a", "g", "e", "l", "s">>, <<"b", "e", "r", "r", "y">>, <<"b", "e", "r", "r", "i", "e", "s">> }

NextPlural == \E x \in PluralNames : Resolve(x)

SpecPlural == Init /\ [][NextPlural]_vars

(* -------------------------------- items to move --------------------------------- *)

Locations == {"Fridge", "Freezer", "Cupboard"}

\* No item is counted beyond MaxMoveQty, and no more is moved at once.
MaxMoveQty == 2

\* the payloads of POST /move for the product added and for one that is not stored
MovePayloads ==
  [product_reference_id : {1, 2}, from_location : Locations, to_location : Locations,
   quantity : 1..MaxMoveQty]

NextMove ==
  \/ \E n \in FreshNames, location \in {"Fridge", "Freezer"} :
        AddFreshItem(n, q_int(50), location) /\ ItemsBounded(items', MaxMoveQty)
  \/ \E payload \in MovePayloads : MoveItem(payload) /\ ItemsBounded(items', MaxMoveQty)

SpecMove == Init /\ [][NextMove]_vars

(* ------------------------- resolver properties ------------------------- *)

seed_alias_texts ==
  UNION {{INGREDIENT_ALIAS_SEEDS[i].aliases[j] : j \in 1..Len(INGREDIENT_ALIAS_SEEDS[i].aliases)} :
         i \in 1..Len(INGREDIENT_ALIAS_SEEDS)}

seed_canonicals == {INGREDIENT_ALIAS_SEEDS[i].canonical : i \in 1..Len(INGREDIENT_ALIAS_SEEDS)}

\* the normalized names the resolver is probed with: the names resolved, every string of
\* the seed rows, the normalized product names and the empty name
ProbeNames ==
  ResolveNames \cup seed_alias_texts \cup seed_canonicals
    \cup {normalize_ingredient_text(s_Fresh_Bagels), <<>>}

\* C1: from every reachable store state, find_or_create_ingredient(x) completes without
\* an error for every normalized name x and returns an identity that is stored.
C1_ResolveNeverFails ==
  \A x \in ProbeNames :
    LET o == find_or_create_ingredient(ingredient_references, ingredient_aliases, x)
    IN /\ ~o.raised
       /\ o.ret # None
       /\ \E r \in o.refs : r.id = o.ret[1]

\* a resolve answered through a stored alias that product auto-mapping wrote
C1_Witness ==
  /\ last.op = "resolve" /\ last.tier = 2 /\ ~last.raised
  /\ \E r \in ingredient_references : Some(r.id) = last.ret
  /\ product_references # {}

\* three resolves in a row over the stores refs, als
resolve3(refs, als, x, y, z) ==
  LET o1 == find_or_create_ingredient(refs, als, x)
      o2 == find_or_create_ingredient(o1.refs, o1.als, y)
      o3 == find_or_create_ingredient(o2.refs, o2.als, z)
  IN <<o1, o2, o3>>

\* the (canonical, alias) entries of the seed table
seed_pairs ==
  UNION {{<<INGREDIENT_ALIAS_SEEDS[i].canonical, INGREDIENT_ALIAS_SEEDS[i].aliases[j]>> :
            j \in 1..Len(INGREDIENT_ALIAS_SEEDS[i].aliases)} :
         i \in 1..Len(INGREDIENT_ALIAS_SEEDS)}

unseen(refs, als, a) ==
  /\ \A r \in refs : r.name # a /\ r.normalized_name # a
  /\ \A row \in als : row.alias # a

same_identity(os) ==
  /\ \A i \in 1..3 : ~os[i].raised /\ os[i].ret # None
  /\ os[1].ret = os[2].ret /\ os[2].ret = os[3].ret

\* C2 as claimed: for a seed entry (c, a) with a unseen, resolve(a) and resolve(c) return
\* the same identity in either order, and a repeated resolve(a) is answered at the alias
\* tier.
C2_AsClaimed ==
  \A p \in seed_pairs :
    unseen(ingredient_references, ingredient_aliases, p[2]) =>
      LET ac == resolve3(ingredient_references, ingredient_aliases, p[2], p[1], p[2])
          ca == resolve3(ingredient_references, ingredient_aliases, p[1], p[2], p[2])
      IN /\ same_identity(ac) /\ ac[3].tier = 2
         /\ same_identity(ca) /\ ca[3].tier = 2

\* C3: no two rows of the alias store have the same alias text.
C3_AliasTextUnique ==
  \A a, b \in ingredient_aliases : a.alias = b.alias => a = b

\* map-all has mapped a product: its name and its normalized name are alias rows of
\* one identity
C3_Witness ==
  /\ last.op = "map_all" /\ last.mapped_count > 0
  /\ \E a, b \in ingredient_aliases :
       /\ a.alias = s_Fresh_Bagels
       /\ b.alias = normalize_ingredient_text(s_Fresh_Bagels)
       /\ a.ingredient_id = b.ingredient_id

NormalizedNameUnique(refs) ==
  \A r, q \in refs : r.normalized_name = q.normalized_name => r = q

\* C4: no two stored identities share a normalized_name, and no operation changes the
\* id of a stored identity.
C4_IdentityUniqueAndIdStable ==
  /\ []NormalizedNameUnique(ingredient_references)
  /\ [][\A r \in ingredient_references :
          \E q \in ingredient_references' : q.name = r.name /\ q.id = r.id]_vars

\* seeding ran over a store that already held identities and created the rest
C4_Witness ==
  /\ last.op = "seed" /\ last.created_ingredients = 1
  /\ Cardinality(ingredient_references) >= 3
  /\ \E r \in ingredient_references : r.name = s_eggplant

stored(refs, name) == {r \in refs : r.name = name \/ r.normalized_name = name}
candidates_of(name) == {singularize_candidates(name)[i] : i \in 1..Len(singularize_candidates(name))}

\* the identity the tier order prescribes for resolving x over the stores refs, als,
\* stated tier by tier on the stores as they were before the call
TierOrderHolds(refs, als, x, o_refs, ret, tier) ==
  LET got == {r \in o_refs : Some(r.id) = ret}
      in_w == {c \in candidates_of(x) : in_manual_weights(c)}
      in_db == {c \in candidates_of(x) : stored(refs, c) # {}}
  IN /\ got # {}
     /\ IF stored(refs, x) # {}
        THEN tier = 1 /\ got \subseteq stored(refs, x)
        ELSE IF \E a \in als : a.alias = x
        THEN tier = 2 /\ \E a \in als : a.alias = x /\ Some(a.ingredient_id) = ret
        ELSE IF x \in seed_alias_texts
        THEN tier = 3 /\ \A r \in got : r.name = find_canonical_in_seeds(x)[1]
        ELSE IF in_w # {}
        THEN tier = 4 /\ \A r \in got : r.name \in in_w
        ELSE IF in_db # {}
        THEN tier = 5 /\ \A r \in got : r \in refs /\ r.name \in in_db
        ELSE IF in_manual_weights(x)
        THEN tier = 6 /\ \A r \in got : r.name = x /\ r \notin refs
        ELSE tier = 7 /\ \A r \in got : r.name = x /\ r \notin refs

\* C5: find_or_create_ingredient returns the identity of the earliest qualifying tier:
\* exact match, stored alias, seed table, singular in the weight table, singular among
\* the stored identities, own name in the weight table, new identity.
C5_TierOrder ==
  [][last'.op = "resolve" =>
       TierOrderHolds(ingredient_references, ingredient_aliases, last'.arg,
                      ingredient_references', last'.ret, last'.tier)]_vars

\* a name with both an identity and a stored alias to another identity was resolved
C5_Witness ==
  /\ last.op = "resolve" /\ last.tier = 1
  /\ \E a \in ingredient_aliases :
       a.alias = last.arg /\ Some(a.ingredient_id) # last.ret
(* ------------------------ claims: weight estimation -------------------- *)

weight_inputs == WeightCounts \X WeightTexts \X ProviderWorlds

\* C6: once get_weight_for_count_ingredient has succeeded for an identity, the
\* identity's avg_weight_grams is set; from then on every call for that identity,
\* whatever the count, the text and the state of the provider, returns count times the
\* cached weight with the cached source, consults no tier and changes no identity, and
\* no step of the system changes the cached weight or its source.
C6_CachedWeightShortCircuits ==
  /\ [](\A r \in ingredient_references :
          /\ (last.op = "estimate" /\ last.arg = r.id /\ ~last.raised /\ last.ret # None)
               => r.avg_weight_grams # None
          /\ r.avg_weight_grams # None =>
               \A in \in weight_inputs :
                 LET o == get_weight_for_count_ingredient(ingredient_references, r,
                                                          in[1], in[2], in[3])
                 IN /\ ~o.raised
                    /\ o.consulted = <<>>
                    /\ o.refs = ingredient_references
                    /\ r.weight_source # None
                    /\ o.ret = Some(Weight(q_mul(in[1], r.avg_weight_grams[1]),
                                           r.weight_source[1])))
  /\ [][\A r \in ingredient_references :
          r.avg_weight_grams # None => r \in ingredient_references']_vars

\* a second estimate for an identity whose weight the first one cached
C6_Witness ==
  /\ last.op = "estimate"
  /\ last.before.avg_weight_grams # None
  /\ last.count = q_int(2)
  /\ last.consulted = <<>>
  /\ last.ret = Some(Weight(q_mul(q_int(2), last.before.avg_weight_grams[1]),
                            last.before.weight_source[1]))

tier_names == <<"recipe_text", "manual", "usda">>

\* what each tier yields per unit for an identity, a count, a text and a provider
\* state: Some(weight), or None for nothing (no hint, no table row, no provider data,
\* or a weight of zero)
tier_yields(r, count, text, world) ==
  LET hint == extract_weight_from_text(text)
      grams == convert_to_base_unit(hint.ret[1].quantity, hint.ret[1].unit, r.name).quantity
      per_unit == q_div(grams, count)
      nothing_if_zero(w) == IF truthy_number(w) THEN w ELSE None
  IN << IF ~hint.raised /\ hint.ret # None /\ ~q_zero(count)
        THEN nothing_if_zero(Some(per_unit)) ELSE None,
        nothing_if_zero(get_manual_weight(r.name)),
        nothing_if_zero(get_average_weight(world)) >>

\* C7: with no weight cached, get_weight_for_count_ingredient asks the text hint, the
\* manual table and the provider in that order and stops at the first tier that yields
\* a weight; that weight and the tier's name are stored on the identity and count
\* times the weight is returned; when no tier yields a weight it returns None and
\* leaves the identities as they were.  It never raises.
C7_AsClaimed ==
  \A r \in ingredient_references :
    r.avg_weight_grams = None =>
      \A in \in weight_inputs :
        LET o == get_weight_for_count_ingredient(ingredient_references, r, in[1], in[2], in[3])
            yields == tier_yields(r, in[1], in[2], in[3])
            hits == {i \in 1..3 : yields[i] # None}
            first == CHOOSE i \in hits : \A j \in hits : i <= j
        IN /\ ~o.raised
           /\ IF hits = {}
              THEN /\ o.ret = None
                   /\ o.refs = ingredient_references
                   /\ o.consulted = tier_names
              ELSE /\ o.consulted = SubSeq(tier_names, 1, first)
                   /\ o.ret = Some(Weight(q_mul(in[1], yields[first][1]), tier_names[first]))
                   /\ o.refs = update_avg_weight(ingredient_references, r.id,
                                                 yields[first][1], tier_names[first])

(* --------------------------- claims: matching -------------------------- *)

\* the inventory maps the aggregation may build from the stored items
inventories ==
  {aggregate_inventory_by_ingredient(ingredient_references, ingredient_aliases,
                                     product_references, item_order) :
     item_order \in orderings(items)}

match_of(recipe, inventory) ==
  match_recipe_to_inventory(ingredient_references, recipe_ingredients,
                            ingredient_substitutions, recipe, inventory)

lines_of(inventory, ingredient_id) == {l \in inventory : l.ingredient_id = ingredient_id}

required_of(requirement) ==
  convert_to_base_unit(requirement.quantity, requirement.unit,
                       One(get_ingredient_by_id(ingredient_references,
                                                requirement.canonical_ingredient_id)).name)

\* C8: in the result of match_recipe_to_inventory there is one availability entry per
\* requirement of the recipe, in order; the entry is sufficient exactly when the
\* ingredient has an inventory line of the requirement's converted base unit whose
\* total is at least the converted quantity; when the line has another base unit the
\* entry reports 0 available and is insufficient; when the ingredient has no line the
\* entry is insufficient, and substitutions are looked up once for each such
\* requirement and for no other.
C8_RequirementSufficiency ==
  \A agg \in inventories : ~agg.raised =>
    \A recipe \in recipes :
      LET m == match_of(recipe, agg.inventory)
          requirements == get_recipe_ingredients(recipe_ingredients, recipe.id)
          absent(q) == lines_of(agg.inventory, q.canonical_ingredient_id) = {}
      IN /\ ~m.raised
         /\ Len(m.ingredient_availability) = Len(requirements)
         /\ \A i \in 1..Len(requirements) :
              LET entry == m.ingredient_availability[i]
                  required == required_of(requirements[i])
                  lines == lines_of(agg.inventory, requirements[i].canonical_ingredient_id)
              IN /\ entry.ingredient_id = requirements[i].canonical_ingredient_id
                 /\ entry.is_sufficient <=>
                      \E l \in lines : /\ l.base_unit = required.base_unit
                                       /\ q_ge(l.total_quantity, required.quantity)
                 /\ (lines # {} /\ \A l \in lines : l.base_unit # required.base_unit)
                      => (entry.available_quantity = q_int(0) /\ ~entry.is_sufficient)
                 /\ lines = {} => ~entry.is_sufficient
         /\ m.lookups = [i \in 1..Len(SelectSeq(requirements, absent)) |->
                           SelectSeq(requirements, absent)[i].canonical_ingredient_id]

\* one matched recipe with a sufficient requirement, a requirement whose inventory line
\* has another unit, and a requirement without a line
C8_Witness ==
  /\ last.op = "match"
  /\ ~last.ret.raised
  /\ \E k \in 1..Len(last.ret.missing_few) :
       LET m == last.ret.missing_few[k]
       IN /\ Len(m.lookups) = 1
          /\ \E i, j \in 1..Len(m.ingredient_availability) :
               /\ m.ingredient_availability[i].is_sufficient
               /\ ~m.ingredient_availability[j].is_sufficient
               /\ m.ingredient_availability[j].available_quantity = q_int(0)
               /\ \E l \in lines_of(last.ret.inventory, m.ingredient_availability[j].ingredient_id) :
                    l.base_unit # m.ingredient_availability[j].unit

satisfied_count(m) ==
  Cardinality({i \in 1..Len(m.ingredient_availability) : m.ingredient_availability[i].is_sufficient})

\* the requirements of a recipe without an inventory line for which a rule of the given
\* quality names a substitute that has a line
substitutable(recipe, inventory, quality) ==
  {q \in recipe_ingredients :
     /\ q.recipe_id = recipe.id
     /\ lines_of(inventory, q.canonical_ingredient_id) = {}
     /\ \E s \in ingredient_substitutions :
          /\ s.original_ingredient_id = q.canonical_ingredient_id
          /\ s.quality_score = Some(quality)
          /\ lines_of(inventory, s.substitute_ingredient_id) # {}}

\* C9: the availability_percent of every matched recipe is the number of sufficient
\* requirements over the number of the recipe's requirements times 100, and 0 for a
\* recipe without requirements; match_type is "exact" exactly at 100, else
\* "with_substitutions" exactly when a substitution was suggested, else
\* "missing_ingredients"; a recipe of 3 requirements with 2 sufficient and one without
\* inventory line that has a stocked substitute of quality 7 is "with_substitutions"
\* at 200/3 percent.
C9_PercentAndMatchType ==
  \A agg \in inventories : ~agg.raised =>
    \A recipe \in recipes :
      LET m == match_of(recipe, agg.inventory)
          total == Cardinality({q \in recipe_ingredients : q.recipe_id = recipe.id})
          percent == IF total = 0 THEN q_int(0) ELSE Rat(satisfied_count(m) * 100, total)
      IN /\ m.availability_percent = percent
         /\ m.match_type = "exact" <=> percent = q_int(100)
         /\ percent # q_int(100) =>
              /\ m.match_type = "with_substitutions" <=> Len(m.suggested_substitutions) > 0
              /\ m.match_type = "missing_ingredients" <=> Len(m.suggested_substitutions) = 0
         /\ (total = 3 /\ satisfied_count(m) = 2 /\ substitutable(recipe, agg.inventory, 7) # {})
              => (m.match_type = "with_substitutions" /\ m.availability_percent = Rat(200, 3))

\* the recipe of 3 requirements, 2 of them sufficient, whose third has a stocked
\* substitute of quality 7
C9_Witness ==
  /\ last.op = "match"
  /\ ~last.ret.raised
  /\ \E k \in 1..Len(last.ret.missing_one) :
       LET m == last.ret.missing_one[k]
       IN /\ m.total_ingredients = 3
          /\ satisfied_count(m) = 2
          /\ Len(m.suggested_substitutions) = 1
          /\ m.suggested_substitutions[1].quality_score = 7
          /\ m.match_type = "with_substitutions"
          /\ m.availability_percent = Rat(200, 3)

bucket_names == {"can_make_now", "missing_one", "missing_few", "with_substitutions"}

bucket_of(res, name) ==
  CASE name = "can_make_now" -> res.can_make_now
    [] name = "missing_one" -> res.missing_one
    [] name = "missing_few" -> res.missing_few
    [] name = "with_substitutions" -> res.with_substitutions

\* the places (bucket, index) at which a recipe appears in a response
places(res, recipe_id) ==
  {<<name, i>> \in bucket_names \X (1..Cardinality(recipes)) :
     i <= Len(bucket_of(res, name)) /\ bucket_of(res, name)[i].recipe_id = recipe_id}

\* the first of the four tests, in order, that a match passes ("none": no test)
first_test(m) ==
  IF m.availability_percent = q_int(100) THEN "can_make_now"
  ELSE IF Len(m.missing_ingredients) = 1 THEN "missing_one"
  ELSE IF Len(m.missing_ingredients) \in 2..3 THEN "missing_few"
  ELSE IF Len(m.suggested_substitutions) > 0 THEN "with_substitutions"
  ELSE "none"

\* C10: in every response of match_all_recipes a recipe appears at most once over the
\* four buckets, in the bucket of the first test it passes in the order can_make_now,
\* missing_one, missing_few, with_substitutions and in none when it passes no test; the
\* bucket sizes sum to at most total_recipes_checked, which is the number of stored
\* recipes.
C10_BucketsExclusive ==
  \A item_order \in orderings(items) :
    LET res == match_all_recipes(ingredient_references, ingredient_aliases,
                                 product_references, item_order, recipes,
                                 recipe_ingredients, ingredient_substitutions)
    IN ~res.raised =>
         /\ res.total_recipes_checked = Cardinality(recipes)
         /\ Len(res.can_make_now) + Len(res.missing_one) + Len(res.missing_few)
              + Len(res.with_substitutions) <= res.total_recipes_checked
         /\ \A recipe \in recipes :
              LET at == places(res, recipe.id)
                  test == first_test(match_of(recipe, res.inventory))
              IN /\ Cardinality(at) <= 1
                 /\ \A p \in at : p[1] = test
                 /\ test # "none" => at # {}

\* a response with one recipe in a bucket and another recipe in none
C10_Witness ==
  /\ last.op = "match"
  /\ ~last.ret.raised
  /\ last.ret.total_recipes_checked = 2
  /\ Len(last.ret.with_substitutions) = 1
  /\ Len(last.ret.can_make_now) + Len(last.ret.missing_one) + Len(last.ret.missing_few) = 0


\* the buckets of a response in which a recipe appears
buckets_holding(res, recipe_id) == {p[1] : p \in places(res, recipe_id)}

\* C11: in every response of match_all_recipes a recipe is in can_make_now exactly when
\* its availability is 100%; otherwise in missing_one exactly when one ingredient is
\* missing, with or without a suggested substitution; otherwise in missing_few exactly
\* when 2 or 3 are missing, and then never in with_substitutions even when a
\* substitution was suggested; otherwise in with_substitutions exactly when 4 or more
\* are missing and a substitution was suggested; with 4 or more missing and no
\* suggestion it is in no bucket.
C11_BucketMembership ==
  \A item_order \in orderings(items) :
    LET res == match_all_recipes(ingredient_references, ingredient_aliases,
                                 product_references, item_order, recipes,
                                 recipe_ingredients, ingredient_substitutions)
    IN ~res.raised =>
         \A recipe \in recipes :
           LET m == match_of(recipe, res.inventory)
               held == buckets_holding(res, recipe.id)
               missing == Len(m.missing_ingredients)
               suggested == Len(m.suggested_substitutions)
               full == m.availability_percent = q_int(100)
           IN /\ "can_make_now" \in held <=> full
              /\ "missing_one" \in held <=> (~full /\ missing = 1)
              /\ "missing_few" \in held <=> (~full /\ missing \in 2..3)
              /\ "with_substitutions" \in held <=> (~full /\ missing >= 4 /\ suggested > 0)
              /\ (~full /\ missing \in 2..3 /\ suggested > 0) => held = {"missing_few"}
              /\ (~full /\ missing >= 4 /\ suggested = 0) => held = {}

\* a response that holds a recipe with 3 missing ingredients and a suggested
\* substitution in missing_few, and leaves a recipe with 5 missing ingredients and no
\* suggestion out of every bucket
C11_Witness ==
  /\ last.op = "match"
  /\ ~last.ret.raised
  /\ last.ret.total_recipes_checked = 2
  /\ Len(last.ret.missing_few) = 1
  /\ Len(last.ret.missing_few[1].missing_ingredients) = 3
  /\ Len(last.ret.missing_few[1].suggested_substitutions) = 1
  /\ Len(last.ret.can_make_now) + Len(last.ret.missing_one)
       + Len(last.ret.with_substitutions) = 0
  /\ \E recipe \in recipes :
       /\ Len(match_of(recipe, last.ret.inventory).missing_ingredients) = 5
       /\ buckets_holding(last.ret, recipe.id) = {}

\* the stored rules a lookup for an ingredient may return: keyed by the ingredient, of
\* quality 5 or more, with a substitute that has an inventory line
eligible_rules(ingredient_id, inventory) ==
  {s \in ingredient_substitutions :
     /\ s.original_ingredient_id = ingredient_id
     /\ s.quality_score[1] >= 5
     /\ lines_of(inventory, s.substitute_ingredient_id) # {}}

product_of(item) == One({p \in product_references : p.id = item.product_reference_id})
alias_of(item) == get_alias_by_text(ingredient_aliases, product_of(item).name)
ingredient_of(item) == One(get_ingredient_by_id(ingredient_references, One(alias_of(item)).ingredient_id))

\* what an item contributes: item.qty x package_quantity in the base unit
contribution(item) ==
  convert_to_base_unit(q_mul(q_int(item.qty), value_or(product_of(item).package_quantity, q_int(1))),
                       value_or(product_of(item).package_unit, <<"u", "n", "i", "t">>),
                       ingredient_of(item).name)

RECURSIVE q_sum(_, _)
q_sum(item_order, positions) ==
  IF positions = {} THEN q_int(0)
  ELSE LET i == CHOOSE j \in positions : TRUE
       IN q_add(contribution(item_order[i]).quantity, q_sum(item_order, positions \ {i}))

\* the positions in an item order of the items aliased to an identity
positions_of(item_order, ingredient_id) ==
  {i \in 1..Len(item_order) :
     alias_of(item_order[i]) # {} /\ ingredient_of(item_order[i]).id = ingredient_id}

\* the positions whose contribution has the base unit of the first position
counted(item_order, positions) ==
  LET first == CHOOSE i \in positions : \A j \in positions : i <= j
  IN {i \in positions :
        contribution(item_order[i]).base_unit = contribution(item_order[first]).base_unit}

\* C13: for every order in which the items are listed, aggregate_inventory_by_ingredient
\* has a line exactly for the identities that the alias of some item's product name
\* points to (items whose product name has no alias contribute to no line); the
\* line's base unit is that of the first contribution processed for the identity, and
\* its total is the sum of the contributions (item.qty x package_quantity, converted)
\* that have this base unit; contributions of another base unit are not in the total.
C13_AggregationByUnit ==
  \A item_order \in orderings(items) :
    LET agg == aggregate_inventory_by_ingredient(ingredient_references, ingredient_aliases,
                                                 product_references, item_order)
    IN /\ ~agg.raised
       /\ \A ref \in ingredient_references :
            LET positions == positions_of(item_order, ref.id)
                lines == lines_of(agg.inventory, ref.id)
            IN /\ positions = {} <=> lines = {}
               /\ Cardinality(lines) <= 1
               /\ \A l \in lines :
                    /\ l.base_unit
                         = contribution(item_order[CHOOSE i \in positions :
                                                     \A j \in positions : i <= j]).base_unit
                    /\ l.total_quantity = q_sum(item_order, counted(item_order, positions))
                    /\ Len(l.product_references) = Cardinality(counted(item_order, positions))
       /\ \A l \in agg.inventory : \E ref \in ingredient_references : l.ingredient_id = ref.id

\* an aggregation over four items: two of one ingredient in grams that are summed, one
\* of the same ingredient counted in units that is dropped, and one whose product name
\* has no alias
C13_Witness ==
  /\ last.op = "match"
  /\ ~last.ret.raised
  /\ Len(last.item_order) = 4
  /\ \E i \in 1..4 : alias_of(last.item_order[i]) = {}
  /\ \E l \in last.ret.inventory :
       /\ Cardinality(positions_of(last.item_order, l.ingredient_id)) = 3
       /\ Len(l.product_references) = 2
       /\ l.base_unit = <<"g">>
       /\ l.total_quantity = q_int(200)

\* a recipe with a requirement row whose quantity is NULL
malformed(recipe) ==
  \E q \in recipe_ingredients : q.recipe_id = recipe.id /\ q.quantity = None

finished_pairs(op) ==
  {p \in (1..MaxCalls) \X (1..MaxCalls) :
     /\ p[1] < p[2]
     /\ \A i \in 1..2 : in_flight[p[i]].pc = "done" /\ in_flight[p[i]].op = op}

\* C15: when two interleaved resolve calls for one text have both inserted an alias
\* row for it, the rows point to the same identity, a later resolve of the text
\* returns that identity without failing, and a later inventory aggregation does not
\* fail.
C15_AsClaimed ==
  \A p \in finished_pairs("resolve") :
    LET x == in_flight[p[1]].arg
        rows == get_alias_by_text(ingredient_aliases, x)
    IN (/\ in_flight[p[2]].arg = x
        /\ in_flight[p[1]].missed /\ in_flight[p[2]].missed
        /\ ~in_flight[p[1]].raised /\ ~in_flight[p[2]].raised
        /\ Cardinality(rows) >= 2)
       => /\ \A a, b \in rows : a.ingredient_id = b.ingredient_id
          /\ ~find_or_create_ingredient(ingredient_references, ingredient_aliases, x).raised
          /\ find_or_create_ingredient(ingredient_references, ingredient_aliases, x).ret
               = in_flight[p[1]].ret
          /\ \A item_order \in orderings(items) :
               ~aggregate_inventory_by_ingredient(ingredient_references, ingredient_aliases,
                                                  product_references, item_order).raised

\* C16: for every interleaving of two resolve calls for the same name, unseen when
\* each call looked it up, one identity is created for the name and both calls return
\* it without error.
C16_AsClaimed ==
  \A p \in finished_pairs("resolve") :
    (/\ in_flight[p[1]].arg = in_flight[p[2]].arg
     /\ in_flight[p[1]].missed /\ in_flight[p[2]].missed)
    => /\ ~in_flight[p[1]].raised /\ ~in_flight[p[2]].raised
       /\ in_flight[p[1]].ret # None
       /\ in_flight[p[1]].ret = in_flight[p[2]].ret
       /\ Cardinality(get_ingredient_by_id(ingredient_references, in_flight[p[1]].ret[1])) = 1

\* C17: for every interleaving of two estimateWeight calls on one identity that both
\* loaded it without a cached weight and both fixed a weight, the two calls stored
\* the same per-unit weight and source.
C17_AsClaimed ==
  \A p \in finished_pairs("estimate") :
    (/\ in_flight[p[1]].ingredient_ref.id = in_flight[p[2]].ingredient_ref.id
     /\ \A i \in 1..2 : /\ in_flight[p[i]].ingredient_ref.avg_weight_grams = None
                        /\ ~in_flight[p[i]].raised
                        /\ in_flight[p[i]].ret # None)
    => /\ One(in_flight[p[1]].stored).avg_weight_grams
            = One(in_flight[p[2]].stored).avg_weight_grams
       /\ One(in_flight[p[1]].stored).weight_source
            = One(in_flight[p[2]].stored).weight_source

\* C18: a step that serves match_all_recipes (aggregation, matching of every recipe,
\* categorisation) leaves the identities with their cached weights, the aliases, the
\* products and items, the recipes with their requirements and the substitution rules
\* as they were.
C18_MatcherReadOnly ==
  [][last'.op = "match"
       => UNCHANGED <<ingredient_references, ingredient_aliases, product_references, items,
                      recipes, recipe_ingredients, ingredient_substitutions>>]_vars

\* a served match that read every store: two recipes, an inventory line, an identity
\* with a cached weight, and a rule that gave a suggestion
C18_Witness ==
  /\ last.op = "match"
  /\ ~last.ret.raised
  /\ last.ret.total_recipes_checked = 2
  /\ last.ret.inventory # {}
  /\ \E r \in ingredient_references : r.avg_weight_grams # None
  /\ ingredient_aliases # {}
  /\ \E k \in 1..Len(last.ret.missing_one) :
       Len(last.ret.missing_one[k].suggested_substitutions) = 1

\* C19: normalize_ingredient_text is idempotent: normalizing the text it returned
\* returns that text again.
C19_AsClaimed ==
  last.op = "normalize" => normalize_ingredient_text(last.ret) = last.ret

\* C20: for every quantity, unit text and optional name, convert_to_base_unit returns
\* a base unit among g, ml and unit and a confidence among high, medium and low, and
\* a blank or unrecognized unit text gives the base unit "unit".
C20_AsClaimed ==
  last.op = "convert" =>
    /\ last.ret.base_unit \in {<<"g">>, <<"m", "l">>, <<"u", "n", "i", "t">>}
    /\ last.ret.conversion_confidence \in {"high", "medium", "low"}
    /\ (\A i \in 1..Len(unit_spellings) :
          strip(lower(last.unit)) \notin unit_spellings[i].spellings)
         => last.ret.base_unit = <<"u", "n", "i", "t">>

(* ------------------------- the conversion decision chain ----------------------- *)

\* the row of unit_spellings that lists a lowered, trimmed unit text, 0 when none does
spelling_row(text) ==
  LET rows == {i \in 1..Len(unit_spellings) : text \in unit_spellings[i].spellings}
  IN IF rows = {} THEN 0 ELSE CHOOSE i \in rows : \A j \in rows : i <= j

has_liquid_keyword(name) ==
  \E keyword \in LIQUID_KEYWORDS : contains(lower(name), keyword)

\* what the chain gives for a quantity, the token of a recognized spelling and a name
chain_result(quantity, token, name) ==
  LET ml == q_mul(quantity, table_value(VOLUME_TO_ML, token))
      grams_at(density) == q_mul(q_div(ml, q_int(240)), density)
  IN CASE token = <<"d", "o", "z", "e", "n">> -> Conversion(q_mul(quantity, q_int(12)), <<"u", "n", "i", "t">>, "high")
       [] token = <<"u", "n", "i", "t">> -> Conversion(quantity, <<"u", "n", "i", "t">>, "high")
       [] in_table(WEIGHT_TO_GRAMS, token) ->
            Conversion(q_mul(quantity, table_value(WEIGHT_TO_GRAMS, token)), <<"g">>, "high")
       [] OTHER ->
            IF in_table(DRY_INGREDIENT_DENSITIES, strip(lower(name)))
            THEN Conversion(grams_at(table_value(DRY_INGREDIENT_DENSITIES, strip(lower(name)))),
                            <<"g">>, "high")
            ELSE IF in_table(LIQUID_INGREDIENT_DENSITIES, strip(lower(name)))
            THEN Conversion(ml, <<"m", "l">>, "high")
            ELSE IF name # <<>> /\ has_liquid_keyword(name)
            THEN Conversion(ml, <<"m", "l">>, "medium")
            ELSE IF name # <<>>
            THEN Conversion(grams_at(q_int(150)), <<"g">>, "medium")
            ELSE Conversion(ml, <<"m", "l">>, "low")

\* C21: for a blank unit text or a recognized spelling, convert_to_base_unit returns
\* what the decision chain gives, the first matching step winning: blank or discrete
\* gives the quantity (dozen: twelve times) in "unit", high; a weight token the
\* quantity times its gram factor in "g", high; a volume token ml = quantity times
\* its ml factor and then, by the name: dry table ml/240 x density in "g", high;
\* liquid table ml, high; liquid keyword ml, medium; any other name ml/240 x 150 in
\* "g", medium; no name ml, low.
C21_DecisionChain ==
  last.op = "convert" =>
    LET text == strip(lower(last.unit))
    IN /\ text = <<>> => last.ret = Conversion(last.quantity, <<"u", "n", "i", "t">>, "high")
       /\ (text # <<>> /\ spelling_row(text) # 0) =>
            last.ret = chain_result(last.quantity, unit_spellings[spelling_row(text)].to,
                                    last.ingredient_name)

\* two cups of an ingredient that is in neither table and has a liquid keyword
C21_Witness ==
  /\ last.op = "convert"
  /\ last.unit = <<"C", "u", "p", "s">>
  /\ last.quantity = q_int(2)
  /\ last.ingredient_name = <<"l", "e", "m", "o", "n", " ", "j", "u", "i", "c", "e">>
  /\ last.ret = Conversion(q_int(480), <<"m", "l">>, "medium")

(* ------------------------------ compatible units ------------------------------ *)

C23_StandardizeIdempotent ==
  last.op = "standardize" => standardize_unit(last.ret) = last.ret

\* a blank unit text, of which only the token "unit" is a fixed point
C23_Witness ==
  /\ last.op = "standardize"
  /\ last.unit = <<" ">>
  /\ last.ret = <<"u", "n", "i", "t">>

(* ------------------------------ plurals resolved ------------------------------ *)

\* p is a plural of s under the rules: -ies for -y, -es after -o, a trailing -s that
\* follows neither -s nor -ie
plural_by_rule(p, s) ==
  \/ endswith(s, <<"y">>) /\ p = drop_last(s, 1) \o <<"i", "e", "s">>
  \/ endswith(s, <<"o">>) /\ p = s \o <<"e", "s">>
  \/ s # <<>> /\ p = s \o <<"s">> /\ ~endswith(s, <<"s">>) /\ ~endswith(s, <<"i", "e">>)

\* the singulars of p under the rules
singulars_by_rule(p) ==
  IF Len(p) < 3 THEN {}
  ELSE {s \in {drop_last(p, 1), drop_last(p, 2), drop_last(p, 3) \o <<"y">>} :
          plural_by_rule(p, s)}

\* p has no identity, alias or seed entry of its own
plural_unknown(p) ==
  /\ unseen(ingredient_references, ingredient_aliases, p)
  /\ find_canonical_in_seeds(p) = None

\* resolve(p) returns the stored identity of s, adds no identity and adds the one
\* alias row p -> s
resolves_to_singular(p, s) ==
  LET o == find_or_create_ingredient(ingredient_references, ingredient_aliases, p)
  IN /\ ~o.raised
     /\ \E r \in stored(ingredient_references, s) : o.ret = Some(r.id)
     /\ o.refs = ingredient_references
     /\ \E row \in o.als :
          /\ o.als = ingredient_aliases \cup {row}
          /\ row \notin ingredient_aliases
          /\ row.alias = p /\ Some(row.ingredient_id) = o.ret

\* C24 as claimed: when an identity for s is stored and p is a plural of s under the
\* rules, with no exact match, alias or seed entry of its own, resolve(p) returns
\* the identity of s, creates no identity and stores the alias p -> s.
C24_AsClaimed ==
  \A p \in PluralNames : \A s \in singulars_by_rule(p) :
    (stored(ingredient_references, s) # {} /\ plural_unknown(p))
      => resolves_to_singular(p, s)

\* C24: when an identity for s is stored and p is a plural of s under the rules,
\* with no exact match, alias or seed entry of its own, and no other singular of p
\* under the rules is stored or in the manual weight table, resolve(p) returns the
\* identity of s, creates no identity and stores the alias p -> s.
C24_PluralToStoredSingular ==
  \A p \in PluralNames : \A s \in singulars_by_rule(p) :
    (/\ stored(ingredient_references, s) # {}
     /\ plural_unknown(p)
     /\ \A c \in singulars_by_rule(p) \ {s} :
          ~in_manual_weights(c) /\ stored(ingredient_references, c) = {})
      => resolves_to_singular(p, s)

\* "red potatoes" was resolved to the stored "red potatoe", its second candidate,
\* and "berries" to the stored "berry"
C24_Witness ==
  /\ last.op = "resolve" /\ last.arg = <<"r", "e", "d", " ", "p", "o", "t", "a", "t", "o", "e", "s">> /\ last.tier = 5
  /\ \E r \in ingredient_references : r.name = <<"r", "e", "d", " ", "p", "o", "t", "a", "t", "o", "e">> /\ last.ret = Some(r.id)
  /\ \E a \in ingredient_aliases : a.alias = <<"r", "e", "d", " ", "p", "o", "t", "a", "t", "o", "e", "s">> /\ Some(a.ingredient_id) = last.ret
  /\ \E a \in ingredient_aliases :
       a.alias = <<"b", "e", "r", "r", "i", "e", "s">> /\ a.ingredient_id = new_id(<<"b", "e", "r", "r", "y">>)

(* ---------------------------- what a resolve writes ---------------------------- *)

\* C25: a resolve of x writes nothing when it is answered at the exact-match or
\* alias tier; at the seed and singularization tiers it adds exactly one alias row
\* x -> returned identity, and the returned identity when it was not stored; at the
\* last two tiers it adds exactly one identity named x and no alias row; no row is
\* ever removed or changed, and afterwards x resolves at the exact-match or alias
\* tier.
C25_ResolveWriteFrame ==
  [][last'.op = "resolve" =>
       LET x == last'.arg
           new_refs == ingredient_references' \ ingredient_references
           new_als == ingredient_aliases' \ ingredient_aliases
           again == find_or_create_ingredient(ingredient_references', ingredient_aliases', x)
       IN /\ ~last'.raised /\ last'.tier \in 1..7
          /\ ingredient_references \subseteq ingredient_references'
          /\ ingredient_aliases \subseteq ingredient_aliases'
          /\ last'.tier \in {1, 2} => new_refs = {} /\ new_als = {}
          /\ last'.tier \in {3, 4, 5} =>
               /\ \E row \in new_als :
                    new_als = {row} /\ row.alias = x /\ Some(row.ingredient_id) = last'.ret
               /\ \A r \in new_refs : new_refs = {r} /\ Some(r.id) = last'.ret
               /\ new_refs = {} <=> \E r \in ingredient_references : Some(r.id) = last'.ret
               /\ last'.tier = 5 => new_refs = {}
          /\ last'.tier \in {6, 7} =>
               /\ new_als = {}
               /\ \E r \in new_refs :
                    new_refs = {r} /\ r.name = x /\ Some(r.id) = last'.ret
          /\ ~again.raised /\ again.tier \in {1, 2}
          /\ UNCHANGED <<product_references, items, recipe_vars>>]_vars

\* a seed alias resolved while its canonical identity was not stored: one alias row
\* and the canonical identity were added
C25_Witness ==
  /\ last.op = "resolve" /\ last.arg = s_scallions /\ last.tier = 3
  /\ \E a \in ingredient_aliases : a.alias = s_scallions /\ Some(a.ingredient_id) = last.ret
  /\ \E r \in ingredient_references : r.name = s_green_onion /\ Some(r.id) = last.ret
  /\ \E r \in ingredient_references : r.name = s_bagel

(* --------------------------------- items moved --------------------------------- *)

quantity_at(its, product_reference_id, location) ==
  LET found == get_item_by_product_and_location(its, product_reference_id, location)
  IN IF found = {} THEN 0 ELSE One(found).qty

\* the product's quantity summed over all locations
total_quantity(its, product_reference_id) ==
  quantity_at(its, product_reference_id, "Fridge")
    + quantity_at(its, product_reference_id, "Freezer")
    + quantity_at(its, product_reference_id, "Cupboard")

\* C26 as claimed: a move of q from one location to another debits the source item
\* and credits the destination item by q, keeping the product's total over all
\* locations; when the source item does not exist or holds less than q, no item is
\* changed and the caller gets the not-found answer.
C26_AsClaimed ==
  \A payload \in MovePayloads :
    LET o == move_item_between_locations(items, payload)
        pid == payload.product_reference_id
        source == quantity_at(items, pid, payload.from_location)
    IN IF source < payload.quantity
       THEN o.items = items /\ o.not_found
       ELSE /\ total_quantity(o.items, pid) = total_quantity(items, pid)
            /\ payload.from_location # payload.to_location =>
                 /\ quantity_at(o.items, pid, payload.from_location)
                      = source - payload.quantity
                 /\ quantity_at(o.items, pid, payload.to_location)
                      = quantity_at(items, pid, payload.to_location) + payload.quantity

(* ------------------------------- seeding repeated ------------------------------ *)

\* C27: from every reachable store state, a run of seed_ingredient_aliases adds no
\* alias row for a text that has a row already, and a second run directly after it
\* creates no identity and no alias, counts every seed alias as skipped and leaves
\* the stores as the first run left them.
C27_SeedRepeatable ==
  LET first == seed_ingredient_aliases(ingredient_references, ingredient_aliases)
      second == seed_ingredient_aliases(first.refs, first.als)
  IN /\ ~first.raised /\ ~second.raised
     /\ ingredient_aliases \subseteq first.als
     /\ \A a \in first.als \ ingredient_aliases :
          \A b \in first.als : b.alias = a.alias => b = a
     /\ second.created_ingredients = 0
     /\ second.created_aliases = 0
     /\ second.skipped = Cardinality(seed_pairs)
     /\ second.refs = first.refs /\ second.als = first.als

\* a run that found every seed alias stored, one of them written by a resolve before
\* any seeding and aliases of products beside them
C27_Witness ==
  /\ last.op = "seed" /\ ~last.raised
  /\ last.created_ingredients = 0 /\ last.created_aliases = 0
  /\ last.skipped = Cardinality(seed_pairs)
  /\ product_references # {}
  /\ \E a \in ingredient_aliases : a.alias \notin seed_alias_texts

(* ------------------------------ resolution repeated ----------------------------- *)

\* C28 as claimed: once find_or_create_ingredient(x) has returned an identity, a
\* later find_or_create_ingredient(x) returns the same identity whatever operation
\* (a resolve, seed-aliases, an auto-mapping of a product) has run in between.
C28_AsClaimed ==
  [][(last.op = "resolve" /\ ~last.raised) =>
       LET later == find_or_create_ingredient(ingredient_references', ingredient_aliases',
                                              last.arg)
       IN ~later.raised /\ later.ret = last.ret]_vars

(* ------------------------------ counts of a match ------------------------------ *)

\* C29: in every result of match_recipe_to_inventory over a reachable store state,
\* the number of sufficient entries plus the number of missing ingredients is the
\* number of availability entries, which is the number of the recipe's requirements;
\* there are no more suggested substitutions than missing ingredients; and
\* availability_percent is 100 exactly when the recipe has at least one requirement
\* and no missing ingredient.
C29_MatchCounts ==
  \A agg \in inventories : ~agg.raised =>
    \A recipe \in recipes :
      LET m == match_of(recipe, agg.inventory)
          total == Cardinality({q \in recipe_ingredients : q.recipe_id = recipe.id})
      IN ~m.raised =>
           /\ m.available_count = satisfied_count(m)
           /\ satisfied_count(m) + Len(m.missing_ingredients) = Len(m.ingredient_availability)
           /\ Len(m.ingredient_availability) = total
           /\ Len(m.suggested_substitutions) <= Len(m.missing_ingredients)
           /\ m.availability_percent = q_int(100)
                <=> (total >= 1 /\ Len(m.missing_ingredients) = 0)

\* a matched recipe without requirements beside one with a sufficient and a missing
\* requirement and a suggestion
C29_Witness ==
  /\ last.op = "match"
  /\ ~last.ret.raised
  /\ \E recipe \in recipes :
       LET m == match_of(recipe, last.ret.inventory)
       IN m.total_ingredients = 0 /\ m.availability_percent = q_int(0)
  /\ \E recipe \in recipes :
       LET m == match_of(recipe, last.ret.inventory)
       IN /\ satisfied_count(m) >= 1
          /\ Len(m.missing_ingredients) >= 1
          /\ Len(m.suggested_substitutions) >= 1

(* --------------------------- the order of aggregation -------------------------- *)

\* each ingredient's base unit and total quantity in an inventory map
totals_of(inventory) ==
  {[ingredient_id |-> l.ingredient_id, base_unit |-> l.base_unit,
    total_quantity |-> l.total_quantity] : l \in inventory}

\* C30 as claimed: aggregate_inventory_by_ingredient gives each ingredient the same
\* base unit and total quantity for every order in which the same stored items are
\* processed.
C30_AsClaimed ==
  \A a, b \in inventories :
    (~a.raised /\ ~b.raised) => totals_of(a.inventory) = totals_of(b.inventory)
====
